---- MODULE Spec2Model ----
(***************************************************************************)
(* Reimbursement intake and audit: the claim store, the sessions' in-memory *)
(* claim lists, the submission pipeline (field validation, duplicate guard, *)
(* identifier generation, store insert) and the audit resolver.             *)
(***************************************************************************)
EXTENDS Integers, Sequences, FiniteSets

(***************************************************************************)
(* Bounds of the model.                                                     *)
(***************************************************************************)
\* number of claims (fresh internal ids) a behaviour may create
MaxClaims == 2

(***************************************************************************)
(* JavaScript values.  A string is a sequence of one-character strings.     *)
(***************************************************************************)
Undefined == [t |-> "undefined"]
Null == [t |-> "null"]
Str(s) == [t |-> "string", s |-> s]
Num(n) == [t |-> "number", n |-> n]

\* JS truthiness: undefined, null, '' and 0 are falsy
Truthy(v) ==
  CASE v.t = "string" -> v.s # <<>>
    [] v.t = "number" -> v.n # 0
    [] OTHER -> FALSE

\* a || b
OrElse(a, b) == IF Truthy(a) THEN a ELSE b

Digit(n) == <<"0", "1", "2", "3", "4", "5", "6", "7", "8", "9">>[n + 1]

RECURSIVE NatToString(_)
\* String(n) for a natural number n
NatToString(n) ==
  IF n < 10 THEN <<Digit(n)>> ELSE NatToString(n \div 10) \o <<Digit(n % 10)>>

\* String(v)
JsString(v) ==
  CASE v.t = "string" -> v.s
    [] v.t = "number" -> NatToString(v.n)
    [] v.t = "null" -> <<"n", "u", "l", "l">>
    [] OTHER -> <<"u", "n", "d", "e", "f", "i", "n", "e", "d">>

RECURSIVE ParseNat(_)
\* the number written by a sequence of digits
ParseNat(s) ==
  IF s = <<>> THEN 0
  ELSE 10 * ParseNat(SubSeq(s, 1, Len(s) - 1))
       + (CHOOSE d \in 0..9 : Digit(d) = s[Len(s)])

\* Number(v || 0) as the form applies it to its amount inputs
NumberOr0(v) ==
  IF ~Truthy(v) THEN Num(0)
  ELSE IF v.t = "number" THEN v
  ELSE Num(ParseNat(v.s))

IsSpace(c) == c = " "

RECURSIVE TrimStart(_)
TrimStart(s) ==
  IF s # <<>> /\ IsSpace(Head(s)) THEN TrimStart(Tail(s)) ELSE s

RECURSIVE TrimEnd(_)
TrimEnd(s) ==
  IF s # <<>> /\ IsSpace(s[Len(s)]) THEN TrimEnd(SubSeq(s, 1, Len(s) - 1)) ELSE s

\* String.prototype.trim
trim(s) == TrimEnd(TrimStart(s))

RECURSIVE padStart(_, _, _)
\* String.prototype.padStart(n, c)
padStart(s, n, c) == IF Len(s) >= n THEN s ELSE padStart(<<c>> \o s, n, c)

\* String.prototype.startsWith
startsWith(s, p) == Len(p) <= Len(s) /\ SubSeq(s, 1, Len(p)) = p

\* String.prototype.slice(0, n)
slice0(s, n) == SubSeq(s, 1, IF Len(s) < n THEN Len(s) ELSE n)

toUpperCaseChar(c) ==
  CASE c = "z" -> "Z" [] c = "s" -> "S" [] c = "a" -> "A" [] c = "d" -> "D"
    [] c = "m" -> "M" [] c = "i" -> "I" [] c = "n" -> "N" [] c = "l" -> "L"
    [] c = "w" -> "W" [] c = "u" -> "U"
    [] OTHER -> c

\* String.prototype.toUpperCase
toUpperCase(s) == [i \in 1..Len(s) |-> toUpperCaseChar(s[i])]

RECURSIVE join(_)
\* Array.prototype.join('') of an array of strings
join(a) == IF a = <<>> THEN <<>> ELSE Head(a) \o join(Tail(a))

(***************************************************************************)
(* Users.                                                                   *)
(***************************************************************************)
\* Two ordinary users whose display names share their initials, and an admin.
\* A Chinese character is written as the token of its transliteration
\* (Zhang San is <<"zhang", "san">>, Zhao Si is <<"zhao", "si">>).
UserZhang == [id |-> "u1", username |-> <<"z", "s", "a", "n">>,
              chineseName |-> <<"zhang", "san">>, role |-> "user"]
UserZhao == [id |-> "u2", username |-> <<"z", "s", "i">>,
             chineseName |-> <<"zhao", "si">>, role |-> "user"]
UserAdmin == [id |-> "u0", username |-> <<"a", "d", "m", "i", "n">>,
              chineseName |-> <<>>, role |-> "admin"]

\* the first letter of one character's transliteration (pinyin-pro, pattern 'first')
pinyinFirst(c) ==
  CASE c = "zhang" -> <<"z">> [] c = "san" -> <<"s">>
    [] c = "zhao" -> <<"z">> [] c = "si" -> <<"s">>
    [] c = "li" -> <<"l">> [] c = "wang" -> <<"w">>
    [] OTHER -> <<c>>

\* pinyin(name, {pattern: 'first', type: 'array'})
pinyin(name) == [i \in 1..Len(name) |-> pinyinFirst(name[i])]

(***************************************************************************)
(* Field definitions (FormFieldConfig) and the default configuration,       *)
(* restricted to the fields the model carries.                              *)
(***************************************************************************)
Field(id, label, type, required, systemKey, isSystem) ==
  [id |-> id, label |-> label, type |-> type, required |-> required,
   systemKey |-> systemKey, isSystem |-> isSystem]

DEFAULT_FORM_CONFIG == <<
  Field("storeName", "Store", "select", TRUE, "storeName", TRUE),
  Field("orderId", "Order ID", "text", TRUE, "orderId", TRUE),
  Field("companySKU", "SKU", "select", TRUE, "companySKU", TRUE),
  Field("reportAmountUSD", "USD", "number", TRUE, "reportAmountUSD", TRUE),
  Field("reimburseAmountCNY", "CNY", "number", TRUE, "reimburseAmountCNY", TRUE),
  Field("itemReason", "Attribute", "select", FALSE, "itemReason", TRUE),
  Field("ppTransferScreenshotPrincipal", "PP", "file", TRUE,
        "ppTransferScreenshotPrincipal", TRUE),
  Field("creditCardDeductionScreenshotPrincipal", "CC", "file", TRUE,
        "creditCardDeductionScreenshotPrincipal", TRUE),
  Field("orderIdScreenshot", "Order", "file", TRUE, "orderIdScreenshot", TRUE),
  Field("reimburser", "Reimburser", "text", TRUE, "reimburser", TRUE) >>

\* ReimbursementForm: const formConfig = formConfig || [] of the
\* settings every session has loaded
formConfig == DEFAULT_FORM_CONFIG

\* the keys of ReimbursementItem a field can be bound to
SystemKeys ==
  {"storeName", "orderId", "companySKU", "reportAmountUSD", "reimburseAmountCNY",
   "itemReason", "ppTransferScreenshotPrincipal",
   "creditCardDeductionScreenshotPrincipal", "orderIdScreenshot", "reimburser"}

(***************************************************************************)
(* Field Schema Engine: ReimbursementForm.getValue and the validation loop. *)
(***************************************************************************)
\* obj[key] of a JS object: undefined when the key is absent
Get(obj, key) == IF key \in DOMAIN obj THEN obj[key] ELSE Undefined

\* the empty object {}
EmptyObject == [k \in {} |-> Undefined]

getValue(field, formData) ==
  IF field.systemKey # ""
    THEN Get(formData, field.systemKey)
    ELSE LET customFields == Get(formData, "customFields")
         IN IF customFields = Undefined THEN Undefined
            ELSE Get(customFields, field.id)

\* the test of a missing value as a test of falsiness
IsMissing_falsy(val) == ~Truthy(val)

\* val === null || val === undefined || val === ''
IsMissing(val) == val = Null \/ val = Undefined \/ val = Str(<<>>)

RECURSIVE missingFields(_, _)
\* the labels of the required fields without a value, in configuration order
missingFields(config, formData) ==
  IF config = <<>> THEN <<>>
  ELSE LET field == Head(config)
           rest == missingFields(Tail(config), formData)
       IN IF field.required /\ IsMissing(getValue(field, formData))
            THEN <<field.label>> \o rest
            ELSE rest

(***************************************************************************)
(* Duplicate Guard.                                                         *)
(***************************************************************************)
\* normalize with case folding
normalize_caseFold(v) == toUpperCase(trim(JsString(OrElse(v, Str(<<>>)))))

\* const normalize = (str) => String(str || '').trim()
normalize(v) == trim(JsString(OrElse(v, Str(<<>>))))

\* the duplicate search comparing the values as typed, without normalize
formDuplicate_noTrim(items, formData, selfId) ==
  LET currentOrderId == JsString(OrElse(Get(formData, "orderId"), Str(<<>>)))
      currentReason == JsString(OrElse(Get(formData, "itemReason"), Str(<<>>)))
  IN /\ currentOrderId # <<>>
     /\ currentReason # <<>>
     /\ \E k \in 1..Len(items) :
          /\ items[k].id # selfId
          /\ JsString(OrElse(items[k].orderId, Str(<<>>))) = currentOrderId
          /\ JsString(OrElse(items[k].itemReason, Str(<<>>))) = currentReason

\* the duplicate search without the test that both values exist
formDuplicate_noBlankTest(items, formData, selfId) ==
  LET currentOrderId == normalize(Get(formData, "orderId"))
      currentReason == normalize(Get(formData, "itemReason"))
  IN \E k \in 1..Len(items) :
       /\ items[k].id # selfId
       /\ normalize(items[k].orderId) = currentOrderId
       /\ normalize(items[k].itemReason) = currentReason

\* the duplicate search without the exclusion of the claim being edited
formDuplicate_noSelfExclusion(items, formData, selfId) ==
  LET currentOrderId == normalize(Get(formData, "orderId"))
      currentReason == normalize(Get(formData, "itemReason"))
  IN /\ currentOrderId # <<>>
     /\ currentReason # <<>>
     /\ \E k \in 1..Len(items) :
          /\ normalize(items[k].orderId) = currentOrderId
          /\ normalize(items[k].itemReason) = currentReason

\* ReimbursementForm.handleSubmit: items.find(...) finds a duplicate;
\* selfId is initialData?.id || '' (0 stands for '', no claim has that id)
formDuplicate(items, formData, selfId) ==
  LET currentOrderId == normalize(Get(formData, "orderId"))
      currentReason == normalize(Get(formData, "itemReason"))
  IN /\ currentOrderId # <<>>
     /\ currentReason # <<>>
     /\ \E k \in 1..Len(items) :
          /\ items[k].id # selfId
          /\ normalize(items[k].orderId) = currentOrderId
          /\ normalize(items[k].itemReason) = currentReason

\* ReimbursementList.submitQuickAdd: the same search without self exclusion
quickDuplicate(items, newItem) ==
  LET orderIdToCheck == normalize(Get(newItem, "orderId"))
      reasonToCheck == normalize(Get(newItem, "itemReason"))
  IN /\ orderIdToCheck # <<>>
     /\ reasonToCheck # <<>>
     /\ \E k \in 1..Len(items) :
          /\ normalize(items[k].orderId) = orderIdToCheck
          /\ normalize(items[k].itemReason) = reasonToCheck

(***************************************************************************)
(* Identifier Generator.                                                    *)
(***************************************************************************)
\* the local calendar date of day d of the behaviour, as YYYYMMDD
dateStr(d) ==
  NatToString(2024) \o padStart(NatToString(3), 2, "0")
                    \o padStart(NatToString(14 + d), 2, "0")

\* step 1 of generateReimbursementId
initialsOf(user) ==
  IF user.chineseName # <<>>
    THEN toUpperCase(join(pinyin(user.chineseName)))
    ELSE slice0(toUpperCase(user.username), 5)

\* countPrefix without the prefix test: every element that has an autoId counts
countPrefix_anyPrefix(allItems, prefix) ==
  Cardinality({k \in 1..Len(allItems) : Truthy(allItems[k].autoId)})

\* the number of elements of allItems whose autoId starts with prefix
countPrefix(allItems, prefix) ==
  Cardinality({k \in 1..Len(allItems) :
                 /\ Truthy(allItems[k].autoId)
                 /\ startsWith(allItems[k].autoId.s, prefix)})

generateReimbursementId(user, allItems, day) ==
  LET prefix == initialsOf(user) \o dateStr(day)
      sequence == padStart(NatToString(countPrefix(allItems, prefix) + 1), 3, "0")
  IN Str(prefix \o sequence)

(***************************************************************************)
(* State.                                                                   *)
(***************************************************************************)
VARIABLES
  db,        \* the rows of the reimbursements table: a set of claims
  items,     \* per session, App's in-memory list `reimbursements`
  nextId,    \* the next fresh internal id (crypto.randomUUID, Date.now)
  today,     \* the current calendar day
  lastOp,    \* what the last handler did
  probe,     \* the last direct application of a pure function of the program
  bulk       \* AuditDashboard's selection and its batch run (handleBulkVerify)

vars == <<db, items, nextId, today, lastOp, probe, bulk>>

\* AuditDashboard as mounted: nothing selected, no batch run. A run is at the
\* i-th element (counted from 0) of selectedList, with sCount and fCount its
\* counters, apiKey its key and updated the audited claim being written
\* back; pc is the await the run is suspended at, log lists what the run
\* did so far, and runs counts the runs started.
BulkIdle ==
  [pc |-> "idle", selectedIds |-> {}, isProcessing |-> FALSE,
   selectedList |-> <<>>, i |-> 0, sCount |-> 0, fCount |-> 0,
   apiKey |-> Undefined, updated |-> Undefined, log |-> <<>>, runs |-> 0]

\* one browser session per user
Sessions == {"s0", "s1", "s2"}

sessionUser(s) ==
  CASE s = "s1" -> UserZhang
    [] s = "s2" -> UserZhao
    [] OTHER -> UserAdmin

\* NaN, the result of parseFloat('')
NaN == [t |-> "NaN"]

\* an embedded image payload (a data URL)
Image == Str(<<"#">>)

\* {...a, ...b}
Spread(a, b) ==
  [k \in DOMAIN a \cup DOMAIN b |-> IF k \in DOMAIN b THEN b[k] ELSE a[k]]

(***************************************************************************)
(* Claim Store (storageService over the reimbursements table).              *)
(***************************************************************************)
\* .limit(500)
QueryLimit == 500

\* what JSON keeps of a value stored in the row's JSONB column
Json(v) == IF v = NaN THEN Null ELSE v

\* the row's data as it is read back
Stored(item) ==
  [k \in DOMAIN item |-> IF k \in SystemKeys THEN Json(item[k]) ELSE item[k]]

RECURSIVE orderDesc(_)
\* .order('created_at', {ascending: false})
orderDesc(rows) ==
  IF rows = {} THEN <<>>
  ELSE LET first == CHOOSE r \in rows : \A q \in rows : q.createdAt <= r.createdAt
       IN <<first>> \o orderDesc(rows \ {first})

\* getReimbursements: ok is FALSE when the query fails
getReimbursements(currentUser, rows, ok) ==
  IF ~ok THEN <<>>
  ELSE LET visible == IF currentUser.role # "admin"
                        THEN {r \in rows : r.userId = currentUser.id}
                        ELSE rows
           sorted == orderDesc(visible)
       IN SubSeq(sorted, 1, IF Len(sorted) < QueryLimit THEN Len(sorted) ELSE QueryLimit)

\* saveReimbursement on a table that refuses a second row with the same autoId
saveReimbursement_uniqueAutoId(rows, item) ==
  IF \E r \in rows : r.autoId = item.autoId THEN rows ELSE rows \cup {Stored(item)}

\* saveReimbursement: the table after the insert succeeded
saveReimbursement(rows, item) == rows \cup {Stored(item)}

\* updateReimbursement: the table after the update succeeded
updateReimbursement(rows, updatedItem) ==
  {IF r.id = updatedItem.id THEN Stored(updatedItem) ELSE r : r \in rows}

(***************************************************************************)
(* ReimbursementForm.handleSubmit.                                          *)
(***************************************************************************)
\* the form state of a new application after the user typed inp
newFormData(currentUser, inp) ==
  Spread([reimburser |-> Str(currentUser.username), customFields |-> EmptyObject], inp)

\* the form state of an edit after the user retyped inp
editFormData(initialData, inp) == Spread(initialData, inp)

commonData(formData) ==
  Spread(formData,
         [reportAmountUSD |-> NumberOr0(Get(formData, "reportAmountUSD")),
          reimburseAmountCNY |-> NumberOr0(Get(formData, "reimburseAmountCNY"))])

\* handleSubmit without the return that follows the duplicate confirmation
handleSubmit_noReturn(list, config, formData, initialData, currentUser, id, day) ==
  IF missingFields(config, formData) # <<>>
    THEN [outcome |-> "missing", generated |-> FALSE, call |-> "none",
          item |-> Undefined]
  ELSE IF initialData # Undefined
    THEN [outcome |-> IF formDuplicate(list, formData, initialData.id)
                        THEN "duplicate" ELSE "accepted",
          generated |-> FALSE, call |-> "onUpdate",
          item |-> Spread(Spread(initialData, commonData(formData)),
                          [status |-> "pending"])]
  ELSE [outcome |-> IF formDuplicate(list, formData, 0)
                      THEN "duplicate" ELSE "accepted",
        generated |-> TRUE, call |-> "onSubmit",
        item |-> Spread(commonData(formData),
                        [id |-> id,
                         userId |-> currentUser.id,
                         userName |-> Str(currentUser.username),
                         autoId |-> generateReimbursementId(currentUser, list, day),
                         status |-> "pending",
                         auditResult |-> Undefined,
                         createdAt |-> id])]

\* handleSubmit whose edit branch does not reset the status
handleSubmit_keepStatus(list, config, formData, initialData, currentUser, id, day) ==
  IF missingFields(config, formData) # <<>>
    THEN [outcome |-> "missing", generated |-> FALSE, call |-> "none",
          item |-> Undefined]
  ELSE IF formDuplicate(list, formData,
                        IF initialData = Undefined THEN 0 ELSE initialData.id)
    THEN [outcome |-> "duplicate", generated |-> FALSE, call |-> "none",
          item |-> Undefined]
  ELSE IF initialData # Undefined
    THEN [outcome |-> "accepted", generated |-> FALSE, call |-> "onUpdate",
          item |-> Spread(initialData, commonData(formData))]
  ELSE [outcome |-> "accepted", generated |-> TRUE, call |-> "onSubmit",
        item |-> Spread(commonData(formData),
                        [id |-> id,
                         userId |-> currentUser.id,
                         userName |-> Str(currentUser.username),
                         autoId |-> generateReimbursementId(currentUser, list, day),
                         status |-> "pending",
                         auditResult |-> Undefined,
                         createdAt |-> id])]

\* handleSubmit building the edited claim without the audit result
handleSubmit_clearAudit(list, config, formData, initialData, currentUser, id, day) ==
  IF missingFields(config, formData) # <<>>
    THEN [outcome |-> "missing", generated |-> FALSE, call |-> "none",
          item |-> Undefined]
  ELSE IF formDuplicate(list, formData,
                        IF initialData = Undefined THEN 0 ELSE initialData.id)
    THEN [outcome |-> "duplicate", generated |-> FALSE, call |-> "none",
          item |-> Undefined]
  ELSE IF initialData # Undefined
    THEN [outcome |-> "accepted", generated |-> FALSE, call |-> "onUpdate",
          item |-> Spread(Spread(initialData, commonData(formData)),
                          [status |-> "pending", auditResult |-> Undefined])]
  ELSE [outcome |-> "accepted", generated |-> TRUE, call |-> "onSubmit",
        item |-> Spread(commonData(formData),
                        [id |-> id,
                         userId |-> currentUser.id,
                         userName |-> Str(currentUser.username),
                         autoId |-> generateReimbursementId(currentUser, list, day),
                         status |-> "pending",
                         auditResult |-> Undefined,
                         createdAt |-> id])]

\* what one call of handleSubmit does: its outcome, whether it generated an
\* identifier, and the callback it invokes with which item
handleSubmit(list, config, formData, initialData, currentUser, id, day) ==
  IF missingFields(config, formData) # <<>>
    THEN [outcome |-> "missing", generated |-> FALSE, call |-> "none",
          item |-> Undefined]
  ELSE IF formDuplicate(list, formData,
                        IF initialData = Undefined THEN 0 ELSE initialData.id)
    THEN [outcome |-> "duplicate", generated |-> FALSE, call |-> "none",
          item |-> Undefined]
  ELSE IF initialData # Undefined
    THEN [outcome |-> "accepted", generated |-> FALSE, call |-> "onUpdate",
          item |-> Spread(Spread(initialData, commonData(formData)),
                          [status |-> "pending"])]
  ELSE [outcome |-> "accepted", generated |-> TRUE, call |-> "onSubmit",
        item |-> Spread(commonData(formData),
                        [id |-> id,
                         userId |-> currentUser.id,
                         userName |-> Str(currentUser.username),
                         autoId |-> generateReimbursementId(currentUser, list, day),
                         status |-> "pending",
                         auditResult |-> Undefined,
                         createdAt |-> id])]

(***************************************************************************)
(* ReimbursementList.submitQuickAdd.                                        *)
(***************************************************************************)
\* parseFloat of what was typed into a number input
parseFloat(v) == IF v.s = <<>> THEN NaN ELSE Num(ParseNat(v.s))

\* the quick-add row after startAdd and the user's input inp
quickNewItem(inp) ==
  [storeName |-> inp.storeName,
   orderId |-> inp.orderId,
   companySKU |-> inp.companySKU,
   reportAmountUSD |-> IF inp.reportAmountUSD = Undefined THEN Num(0)
                       ELSE parseFloat(inp.reportAmountUSD),
   reimburseAmountCNY |-> IF inp.reimburseAmountCNY = Undefined THEN Num(0)
                          ELSE parseFloat(inp.reimburseAmountCNY),
   itemReason |-> inp.itemReason,
   ppTransferScreenshotPrincipal |-> inp.ppTransferScreenshotPrincipal,
   creditCardDeductionScreenshotPrincipal |->
     inp.creditCardDeductionScreenshotPrincipal,
   orderIdScreenshot |-> inp.orderIdScreenshot]

submitQuickAdd(list, newItem, currentUser, id, day) ==
  IF ~Truthy(newItem.storeName) \/ ~Truthy(newItem.orderId)
     \/ ~Truthy(newItem.companySKU)
    THEN [outcome |-> "missing", generated |-> FALSE, call |-> "none",
          item |-> Undefined]
  ELSE IF quickDuplicate(list, newItem)
    THEN [outcome |-> "duplicate", generated |-> FALSE, call |-> "none",
          item |-> Undefined]
  ELSE [outcome |-> "accepted", generated |-> TRUE, call |-> "onQuickSubmit",
        item |-> Spread(newItem,
                        [id |-> id,
                         userId |-> currentUser.id,
                         userName |-> Str(currentUser.username),
                         autoId |-> generateReimbursementId(currentUser, list, day),
                         status |-> "pending",
                         auditResult |-> Undefined,
                         createdAt |-> id,
                         reimburser |-> Str(currentUser.username),
                         itemReason |-> OrElse(newItem.itemReason, Str(<<>>)),
                         customFields |-> Undefined])]

(***************************************************************************)
(* App: the handlers that change the in-memory list and the store.          *)
(***************************************************************************)
\* handleReimbursementSubmit: the in-memory list and the table afterwards
handleReimbursementSubmit(prev, rows, newItem, currentUser, okSave, okLoad) ==
  LET optimistic == <<newItem>> \o prev
  IN IF ~okSave
       THEN [items |-> optimistic, db |-> rows]
       ELSE [items |-> getReimbursements(currentUser,
                                         saveReimbursement(rows, newItem), okLoad),
             db |-> saveReimbursement(rows, newItem)]

\* handleAuditUpdate sending the keys the caller changed only: the row keeps
\* every other key as the table holds it
handleAuditUpdate_patch(prev, rows, updatedItem, okUpdate) ==
  LET listed == {prev[k] : k \in 1..Len(prev)}
      held == IF \E c \in listed : c.id = updatedItem.id
                THEN CHOOSE c \in listed : c.id = updatedItem.id ELSE updatedItem
      changed == {key \in DOMAIN updatedItem : key \notin DOMAIN held \/ held[key] # updatedItem[key]}
      patch == [key \in changed |-> Stored(updatedItem)[key]]
  IN [items |-> [k \in 1..Len(prev) |->
                   IF prev[k].id = updatedItem.id THEN updatedItem ELSE prev[k]],
      db |-> IF okUpdate THEN {IF r.id = updatedItem.id THEN Spread(r, patch) ELSE r : r \in rows}
             ELSE rows]

\* handleAuditUpdate: the in-memory list and the table afterwards
handleAuditUpdate(prev, rows, updatedItem, okUpdate) ==
  [items |-> [k \in 1..Len(prev) |->
                IF prev[k].id = updatedItem.id THEN updatedItem ELSE prev[k]],
   db |-> IF okUpdate THEN updateReimbursement(rows, updatedItem) ELSE rows]

\* The record of a handler run: the handler, the verdict of its checks
\* (missing, duplicate, accepted, ...), whether an identifier was generated,
\* the store calls issued, whether one failed and whether the failure was
\* shown to the user, the collaborator calls made, for an audit, the
\* claim the Audit Resolver was run on, the claim it returned and what the
\* collaborator did with each of the three checks and, for an accepted edit,
\* the status of the claim the form was opened on.
Op(op, verdict, generated, storeCalls, storeFailed, surfaced) ==
  [op |-> op, verdict |-> verdict,
   generated |-> generated, storeCalls |-> storeCalls,
   storeFailed |-> storeFailed, surfaced |-> surfaced,
   aiCalls |-> 0, audit |-> Undefined, before |-> "none"]

(***************************************************************************)
(* What users type.                                                         *)
(***************************************************************************)
OrderIdInputs == {Str(<<>>), Str(<<"A">>)}
ReasonInputs == {Undefined, Str(<<"P">>)}

FormInputs ==
  [storeName : {Str(<<"S">>)},
   orderId : OrderIdInputs,
   companySKU : {Str(<<"K">>)},
   reportAmountUSD : {Str(<<"5">>)},
   reimburseAmountCNY : {Str(<<"7">>)},
   itemReason : ReasonInputs,
   ppTransferScreenshotPrincipal : {Undefined, Image},
   creditCardDeductionScreenshotPrincipal : {Image},
   orderIdScreenshot : {Image}]

(***************************************************************************)
(* Actions.                                                                 *)
(***************************************************************************)
\* App.loadUserData on login or mount
LoadUserData(s, ok) ==
  /\ items' = [items EXCEPT ![s] = getReimbursements(sessionUser(s), db, ok)]
  /\ lastOp' = Op("load", "none", FALSE, 1, ~ok, FALSE)
  /\ UNCHANGED <<db, nextId, today, probe, bulk>>

\* the plan of a submission, applied through App.handleReimbursementSubmit
ApplySubmit(op, s, plan, okSave, okLoad) ==
  IF plan.call = "none"
    THEN /\ lastOp' = Op(op, plan.outcome, plan.generated, 0, FALSE, FALSE)
         /\ UNCHANGED <<db, items, nextId, today, probe, bulk>>
    ELSE LET after == handleReimbursementSubmit(items[s], db, plan.item,
                                                sessionUser(s), okSave, okLoad)
         IN /\ items' = [items EXCEPT ![s] = after.items]
            /\ db' = after.db
            /\ nextId' = nextId + 1
            /\ lastOp' = Op(op, plan.outcome, plan.generated,
                            IF okSave THEN 2 ELSE 1, ~okSave, ~okSave)
            /\ UNCHANGED <<today, probe, bulk>>

\* a new application through the full form
SubmitForm(s, inp, okSave, okLoad) ==
  /\ nextId <= MaxClaims
  /\ ApplySubmit("submit", s,
                 handleSubmit(items[s], formConfig,
                              newFormData(sessionUser(s), inp), Undefined,
                              sessionUser(s), nextId, today),
                 okSave, okLoad)

\* a new application through the list's quick-add row
QuickAdd(s, inp, okSave, okLoad) ==
  /\ nextId <= MaxClaims
  /\ ApplySubmit("quickAdd", s,
                 submitQuickAdd(items[s], quickNewItem(inp), sessionUser(s),
                                nextId, today),
                 okSave, okLoad)

\* an edit of the k-th claim of the session's list through the full form;
\* App's onUpdate calls handleAuditUpdate without awaiting it
EditForm(s, k, inp, okUpdate) ==
  /\ k \in 1..Len(items[s])
  /\ LET initialData == items[s][k]
         plan == handleSubmit(items[s], formConfig,
                              editFormData(initialData, inp), initialData,
                              sessionUser(s), nextId, today)
     IN IF plan.call = "none"
          THEN /\ lastOp' = Op("edit", plan.outcome, plan.generated, 0, FALSE, FALSE)
               /\ UNCHANGED <<db, items>>
          ELSE LET after == handleAuditUpdate(items[s], db, plan.item, okUpdate)
               IN /\ items' = [items EXCEPT ![s] = after.items]
                  /\ db' = after.db
                  /\ lastOp' = [Op("edit", plan.outcome, plan.generated, 1, ~okUpdate, FALSE)
                                  EXCEPT !.before = initialData.status]
  /\ UNCHANGED <<nextId, today, probe, bulk>>

(***************************************************************************)
(* The submission system: every session starts logged in on an empty store. *)
(***************************************************************************)
Init ==
  /\ db = {}
  /\ items = [s \in Sessions |-> <<>>]
  /\ nextId = 1
  /\ today = 1
  /\ lastOp = Op("init", "none", FALSE, 0, FALSE, FALSE)
  /\ probe = Undefined
  /\ bulk = BulkIdle

\* the sessions of the two ordinary users
UserSessions == {"s1", "s2"}

Next ==
  \/ \E s \in UserSessions, inp \in FormInputs, okSave, okLoad \in BOOLEAN :
       SubmitForm(s, inp, okSave, okLoad)
  \/ \E s \in UserSessions, inp \in FormInputs, okSave, okLoad \in BOOLEAN :
       QuickAdd(s, inp, okSave, okLoad)
  \/ \E s \in UserSessions, k \in 1..MaxClaims, inp \in FormInputs,
        okUpdate \in BOOLEAN :
       EditForm(s, k, inp, okUpdate)
  \/ \E s \in UserSessions, ok \in BOOLEAN : LoadUserData(s, ok)

Spec == Init /\ [][Next]_vars

(***************************************************************************)
(* Properties of the submission system.                                     *)
(***************************************************************************)
SubmissionOps == {"submit", "quickAdd", "edit"}

\* every session's list shows what the store holds for its user
InSync ==
  \A s \in UserSessions : items[s] = getReimbursements(sessionUser(s), db, TRUE)

\* C1: after submissions, quick-adds and edits by any users, with every
\* session's list reloaded from the store, the store holds no two distinct
\* claims, of different users in particular, whose order id and
\* expense-attribute are both non-empty after trimming and both equal after
\* trimming.
C1_NoDuplicatePairInStore ==
  InSync =>
    \A a \in db : \A b \in db :
      (/\ a.id # b.id
       /\ a.userId # b.userId
       /\ normalize(a.orderId) # <<>>
       /\ normalize(a.itemReason) # <<>>)
      => ~(/\ normalize(a.orderId) = normalize(b.orderId)
           /\ normalize(a.itemReason) = normalize(b.itemReason))

\* C2: with submissions that each complete (insert and reload) before the
\* next one starts and leave every session's list reloaded from the store,
\* no two claims of the store, of different users in particular, carry the
\* same generated ID.
C2_GeneratedIdsUnique ==
  InSync =>
    \A a \in db : \A b \in db :
      (a.id # b.id /\ a.userId # b.userId) => a.autoId # b.autoId

\* C7: when the store call of a single-item operation fails, the failure is
\* shown to the user and the in-memory claim lists are as before the operation.
C7_StoreErrorLeavesMemory ==
  [][(lastOp'.op \in SubmissionOps /\ lastOp'.storeFailed)
       => (lastOp'.surfaced /\ items' = items)]_vars

\* C8: a submission or edit rejected by the field validation or by the
\* duplicate guard generates no identifier, issues no store call and leaves
\* the store and the in-memory claim lists unchanged.
C8_RejectionChangesNothing ==
  [][(lastOp'.op \in SubmissionOps /\ lastOp'.verdict \in {"missing", "duplicate"})
       => (/\ ~lastOp'.generated
           /\ lastOp'.storeCalls = 0
           /\ db' = db
           /\ items' = items
           /\ nextId' = nextId)]_vars

\* a duplicate was rejected while claims exist in the store and in memory
C8_Witness ==
  /\ lastOp.op \in SubmissionOps
  /\ lastOp.verdict = "duplicate"
  /\ db # {}
  /\ \E s \in Sessions : items[s] # <<>>

\* C9: no claim of the store lacks a value (null, undefined or '') for a
\* field the active field-definition set marks as required.
C9_StoredClaimsHaveRequiredFields ==
  \A c \in db : missingFields(formConfig, c) = <<>>

(***************************************************************************)
(* geminiService: the three checks of an audit.                             *)
(***************************************************************************)
\* what the AI collaborator does with an amount check: it fails, or it
\* answers the JSON {extractedAmount, matches, reasoning}
AmountResponses ==
  {[ok |-> FALSE]}
  \cup [ok : {TRUE}, matches : BOOLEAN, extractedAmount : {Num(0), Num(5)}]

\* what it does with a text check: it fails, or it answers the JSON
\* {foundText, matches, reasoning}
TextResponses ==
  {[ok |-> FALSE]}
  \cup [ok : {TRUE}, matches : BOOLEAN, foundText : {Str(<<>>), Str(<<"A">>)}]

\* performAmountCheck sending the request whether or not an image is given
performAmountCheck_noImageTest(imageBase64, response) ==
  IF ~response.ok
    THEN [verified |-> FALSE, extractedAmount |-> Null, reason |-> "AI Error"]
  ELSE [verified |-> response.matches,
        extractedAmount |-> response.extractedAmount,
        reason |-> "reasoning"]

performAmountCheck(imageBase64, response) ==
  IF ~Truthy(imageBase64)
    THEN [verified |-> FALSE, extractedAmount |-> Null,
          reason |-> "No screenshot provided"]
  ELSE IF ~response.ok
    THEN [verified |-> FALSE, extractedAmount |-> Null, reason |-> "AI Error"]
  ELSE [verified |-> response.matches,
        extractedAmount |-> response.extractedAmount,
        reason |-> "reasoning"]

\* performTextCheck reporting the collaborator's error as the text it found
performTextCheck_errorText(targetText, imageBase64, response) ==
  IF ~Truthy(imageBase64) \/ ~Truthy(targetText)
    THEN [verified |-> FALSE, extractedAmount |-> Null,
          reason |-> "No screenshot or Order ID provided"]
  ELSE IF ~response.ok
    THEN [verified |-> FALSE, extractedAmount |-> Null,
          extractedText |-> Str(<<"E">>), reason |-> "AI Error"]
  ELSE [verified |-> response.matches, extractedAmount |-> Null,
        extractedText |-> response.foundText, reason |-> "reasoning"]

performTextCheck(targetText, imageBase64, response) ==
  IF ~Truthy(imageBase64) \/ ~Truthy(targetText)
    THEN [verified |-> FALSE, extractedAmount |-> Null,
          reason |-> "No screenshot or Order ID provided"]
  ELSE IF ~response.ok
    THEN [verified |-> FALSE, extractedAmount |-> Null, reason |-> "AI Error"]
  ELSE [verified |-> response.matches, extractedAmount |-> Null,
        extractedText |-> response.foundText, reason |-> "reasoning"]

\* performFullAudit with one failure handler around the three checks: a
\* collaborator failure on any check replaces all three results
performFullAudit_failAll(amountUSD, screenshotUSD, amountCNY, screenshotCNY, orderId, screenshotOrder, explicitApiKey, envKey, responses, now) ==
  LET apiKey == OrElse(explicitApiKey, envKey)
      err == [verified |-> FALSE, extractedAmount |-> Null,
              reason |-> "Missing API Key"]
      failed == [verified |-> FALSE, extractedAmount |-> Null,
                 reason |-> "AI Error"]
      orderTargetImage == OrElse(screenshotOrder, screenshotUSD)
  IN IF ~Truthy(apiKey)
       THEN [usdCheck |-> err, cnyCheck |-> err, orderCheck |-> err,
             timestamp |-> now]
     ELSE IF \/ (Truthy(screenshotUSD) /\ ~responses.usd.ok)
             \/ (Truthy(screenshotCNY) /\ ~responses.cny.ok)
             \/ (Truthy(orderTargetImage) /\ Truthy(orderId) /\ ~responses.order.ok)
       THEN [usdCheck |-> failed, cnyCheck |-> failed, orderCheck |-> failed,
             timestamp |-> now]
     ELSE [usdCheck |-> performAmountCheck(screenshotUSD, responses.usd),
           cnyCheck |-> performAmountCheck(screenshotCNY, responses.cny),
           orderCheck |-> performTextCheck(orderId, orderTargetImage,
                                           responses.order),
           timestamp |-> now]

\* performFullAudit: envKey is what getApiKey() returns, now is Date.now()
performFullAudit(amountUSD, screenshotUSD, amountCNY, screenshotCNY, orderId, screenshotOrder, explicitApiKey, envKey, responses, now) ==
  LET apiKey == OrElse(explicitApiKey, envKey)
      err == [verified |-> FALSE, extractedAmount |-> Null,
              reason |-> "Missing API Key"]
      orderTargetImage == OrElse(screenshotOrder, screenshotUSD)
  IN IF ~Truthy(apiKey)
       THEN [usdCheck |-> err, cnyCheck |-> err, orderCheck |-> err,
             timestamp |-> now]
       ELSE [usdCheck |-> performAmountCheck(screenshotUSD, responses.usd),
             cnyCheck |-> performAmountCheck(screenshotCNY, responses.cny),
             orderCheck |-> performTextCheck(orderId, orderTargetImage,
                                             responses.order),
             timestamp |-> now]

\* the number of ai.models.generateContent calls performFullAudit makes
generateContentCalls(screenshotUSD, screenshotCNY, orderId, screenshotOrder, explicitApiKey, envKey) ==
  IF ~Truthy(OrElse(explicitApiKey, envKey)) THEN 0
  ELSE (IF Truthy(screenshotUSD) THEN 1 ELSE 0)
       + (IF Truthy(screenshotCNY) THEN 1 ELSE 0)
       + (IF Truthy(OrElse(screenshotOrder, screenshotUSD)) /\ Truthy(orderId)
            THEN 1 ELSE 0)

(***************************************************************************)
(* Audit Resolver: AuditDashboard.runAuditForItem.                          *)
(***************************************************************************)
\* the status derivation with rule 1 testing the truthiness of the amount
newStatus_truthyAmount(result, cnyAttempted) ==
  LET usdOk == result.usdCheck.verified
      cnyOk == result.cnyCheck.verified
      orderOk == result.orderCheck.verified
  IN IF ~usdOk /\ Truthy(result.usdCheck.extractedAmount) THEN "rejected"
     ELSE IF ~orderOk /\ Truthy(Get(result.orderCheck, "extractedText"))
       THEN "rejected"
     ELSE IF cnyAttempted /\ ~cnyOk /\ result.cnyCheck.extractedAmount # Null
       THEN "rejected"
     ELSE IF usdOk /\ orderOk /\ (~cnyAttempted \/ cnyOk) THEN "approved"
     ELSE "pending"

\* the status derivation with rule 4 requiring the CNY check in every case
newStatus_cnyRequired(result, cnyAttempted) ==
  LET usdOk == result.usdCheck.verified
      cnyOk == result.cnyCheck.verified
      orderOk == result.orderCheck.verified
  IN IF ~usdOk /\ result.usdCheck.extractedAmount # Null THEN "rejected"
     ELSE IF ~orderOk /\ Truthy(Get(result.orderCheck, "extractedText"))
       THEN "rejected"
     ELSE IF cnyAttempted /\ ~cnyOk /\ result.cnyCheck.extractedAmount # Null
       THEN "rejected"
     ELSE IF usdOk /\ orderOk /\ cnyOk THEN "approved"
     ELSE "pending"

\* the status derivation with rule 1 rejecting every unverified USD check
newStatus_noNullTest(result, cnyAttempted) ==
  LET usdOk == result.usdCheck.verified
      cnyOk == result.cnyCheck.verified
      orderOk == result.orderCheck.verified
  IN IF ~usdOk THEN "rejected"
     ELSE IF ~orderOk /\ Truthy(Get(result.orderCheck, "extractedText"))
       THEN "rejected"
     ELSE IF cnyAttempted /\ ~cnyOk /\ result.cnyCheck.extractedAmount # Null
       THEN "rejected"
     ELSE IF usdOk /\ orderOk /\ (~cnyAttempted \/ cnyOk) THEN "approved"
     ELSE "pending"

\* the status derivation of runAuditForItem
newStatus(result, cnyAttempted) ==
  LET usdOk == result.usdCheck.verified
      cnyOk == result.cnyCheck.verified
      orderOk == result.orderCheck.verified
  IN IF ~usdOk /\ result.usdCheck.extractedAmount # Null THEN "rejected"
     ELSE IF ~orderOk /\ Truthy(Get(result.orderCheck, "extractedText"))
       THEN "rejected"
     ELSE IF cnyAttempted /\ ~cnyOk /\ result.cnyCheck.extractedAmount # Null
       THEN "rejected"
     ELSE IF usdOk /\ orderOk /\ (~cnyAttempted \/ cnyOk) THEN "approved"
     ELSE "pending"

\* runAuditForItem without the check of the two primary evidence images
runAuditForItem_noEvidenceCheck(item, explicitKey, envKey, responses, now) ==
  LET result == performFullAudit(item.reportAmountUSD,
                                 item.ppTransferScreenshotPrincipal,
                                 item.reimburseAmountCNY,
                                 item.creditCardDeductionScreenshotPrincipal,
                                 item.orderId,
                                 OrElse(item.orderIdScreenshot, Null),
                                 explicitKey, envKey, responses, now)
      cnyAttempted == Truthy(item.creditCardDeductionScreenshotPrincipal)
  IN [outcome |-> "audited",
      aiCalls |-> generateContentCalls(item.ppTransferScreenshotPrincipal,
                                       item.creditCardDeductionScreenshotPrincipal,
                                       item.orderId,
                                       OrElse(item.orderIdScreenshot, Null),
                                       explicitKey, envKey),
      item |-> Spread(item, [auditResult |-> result,
                             status |-> newStatus(result, cnyAttempted)])]

\* runAuditForItem starting from the status the claim has: an audit that
\* decides nothing leaves the status as it was
runAuditForItem_keepStatus(item, explicitKey, envKey, responses, now) ==
  LET plan == runAuditForItem_noEvidenceCheck(item, explicitKey, envKey, responses, now)
  IN IF ~Truthy(item.ppTransferScreenshotPrincipal) /\ ~Truthy(item.orderIdScreenshot)
       THEN [outcome |-> "noEvidence", aiCalls |-> 0, item |-> Undefined]
     ELSE IF plan.item.status = "pending"
       THEN [plan EXCEPT !.item = Spread(plan.item, [status |-> item.status])]
     ELSE plan

\* what one call of runAuditForItem does: it throws (outcome noEvidence) or
\* it returns the audited item, after so many collaborator calls
runAuditForItem(item, explicitKey, envKey, responses, now) ==
  LET hasMainProof == Truthy(item.ppTransferScreenshotPrincipal)
      hasOrderProof == Truthy(item.orderIdScreenshot)
      result == performFullAudit(item.reportAmountUSD,
                                 item.ppTransferScreenshotPrincipal,
                                 item.reimburseAmountCNY,
                                 item.creditCardDeductionScreenshotPrincipal,
                                 item.orderId,
                                 OrElse(item.orderIdScreenshot, Null),
                                 explicitKey, envKey, responses, now)
      cnyAttempted == Truthy(item.creditCardDeductionScreenshotPrincipal)
  IN IF ~hasMainProof /\ ~hasOrderProof
       THEN [outcome |-> "noEvidence", aiCalls |-> 0, item |-> Undefined]
       ELSE [outcome |-> "audited",
             aiCalls |-> generateContentCalls(
                           item.ppTransferScreenshotPrincipal,
                           item.creditCardDeductionScreenshotPrincipal,
                           item.orderId,
                           OrElse(item.orderIdScreenshot, Null),
                           explicitKey, envKey),
             item |-> Spread(item, [auditResult |-> result,
                                    status |-> newStatus(result, cnyAttempted)])]

(***************************************************************************)
(* AuditDashboard: the administrator's handlers.                            *)
(***************************************************************************)
\* what getApiKey() can return: no key in the environment, or a key
EnvKeys == {Str(<<>>), Str(<<"k">>)}

\* what the API key prompt can return: cancelled, empty, blank, a key
PromptInputs == {Null, Str(<<>>), Str(<<" ">>), Str(<<"k">>)}

\* handleVerifySingle on the k-th claim of the list, a claim without an
\* audit result; the handler tests the role of the user itself
VerifySingle(s, k, envKey, input, responses, okUpdate) ==
  /\ k \in 1..Len(items[s])
  /\ items[s][k].auditResult = Undefined
  /\ LET item == items[s][k]
         key == IF Truthy(envKey) THEN envKey
                ELSE IF input.t = "string" THEN Str(trim(input.s)) ELSE input
         plan == runAuditForItem(item, key, envKey, responses, today)
         after == handleAuditUpdate(items[s], db, plan.item, okUpdate)
     IN IF sessionUser(s).role # "admin"
          THEN /\ lastOp' = Op("verify", "notAdmin", FALSE, 0, FALSE, FALSE)
               /\ UNCHANGED <<db, items>>
        ELSE IF ~Truthy(envKey) /\ ~Truthy(input)
          THEN /\ lastOp' = Op("verify", "noKey", FALSE, 0, FALSE, FALSE)
               /\ UNCHANGED <<db, items>>
        ELSE IF plan.outcome = "noEvidence"
          THEN /\ lastOp' = [Op("verify", "noEvidence", FALSE, 0, FALSE, TRUE)
                               EXCEPT !.aiCalls = plan.aiCalls,
                                      !.audit = [item |-> item,
                                                 updated |-> plan.item]]
               /\ UNCHANGED <<db, items>>
        ELSE /\ items' = [items EXCEPT ![s] = after.items]
             /\ db' = after.db
             /\ lastOp' = [Op("verify", "audited", FALSE, 1, ~okUpdate, ~okUpdate)
                             EXCEPT !.aiCalls = plan.aiCalls,
                                    !.audit = [item |-> item,
                                               updated |-> plan.item,
                                               responses |-> responses]]
  /\ UNCHANGED <<nextId, today, probe, bulk>>

\* how the row of the table stands to the copy of the claim a list holds:
\* gone, the same (fresh), with another order id (edited), or otherwise
\* different (stale)
StoredVersus(rows, item) ==
  IF \A r \in rows : r.id # item.id THEN "gone"
  ELSE IF Stored(item) \in rows THEN "fresh"
  ELSE IF \E r \in rows : r.id = item.id /\ r.orderId # Stored(item).orderId THEN "edited"
  ELSE "stale"

\* updateStatus without the test of the user's role
UpdateStatus_noRoleCheck(s, k, status, okUpdate) ==
  /\ k \in 1..Len(items[s])
  /\ LET after == handleAuditUpdate(items[s], db,
                                    Spread(items[s][k], [status |-> status]),
                                    okUpdate)
     IN /\ items' = [items EXCEPT ![s] = after.items]
        /\ db' = after.db
        /\ lastOp' = Op("updateStatus", "accepted", FALSE, 1, ~okUpdate, FALSE)
  /\ UNCHANGED <<nextId, today, probe, bulk>>

\* updateStatus: a manual approve or reject of the k-th claim of the list;
\* the handler tests the role of the user itself
UpdateStatus(s, k, status, okUpdate) ==
  /\ k \in 1..Len(items[s])
  /\ LET after == handleAuditUpdate(items[s], db,
                                    Spread(items[s][k], [status |-> status]),
                                    okUpdate)
     IN IF sessionUser(s).role # "admin"
          THEN /\ lastOp' = Op("updateStatus", "notAdmin", FALSE, 0, FALSE, FALSE)
               /\ UNCHANGED <<db, items>>
          ELSE /\ items' = [items EXCEPT ![s] = after.items]
               /\ db' = after.db
               /\ lastOp' = [Op("updateStatus", "accepted", FALSE, 1, ~okUpdate, FALSE)
                               EXCEPT !.before = StoredVersus(db, items[s][k])]
  /\ UNCHANGED <<nextId, today, probe, bulk>>

(***************************************************************************)
(* The audit system: the administrator's session over a store that holds    *)
(* one claim a user entered through the quick-add row.                      *)
(***************************************************************************)
\* what the user typed into the quick-add row, with or without each image
AuditInputs ==
  [storeName : {Str(<<"S">>)},
   orderId : {Str(<<"A">>)},
   companySKU : {Str(<<"K">>)},
   reportAmountUSD : {Str(<<"5">>)},
   reimburseAmountCNY : {Str(<<"7">>)},
   itemReason : {Str(<<"P">>)},
   ppTransferScreenshotPrincipal : {Undefined, Image},
   creditCardDeductionScreenshotPrincipal : {Undefined, Image},
   orderIdScreenshot : {Undefined, Image}]

InitAudit ==
  /\ \E inp \in AuditInputs :
       db = saveReimbursement({}, submitQuickAdd(<<>>, quickNewItem(inp),
                                                 UserZhang, 1, 1).item)
  /\ items = [s \in Sessions |-> getReimbursements(sessionUser(s), db, TRUE)]
  /\ nextId = 2
  /\ today = 1
  /\ lastOp = Op("init", "none", FALSE, 0, FALSE, FALSE)
  /\ probe = Undefined
  /\ bulk = BulkIdle

NextAudit ==
  \/ \E envKey \in EnvKeys, input \in PromptInputs, usd, cny \in AmountResponses,
        order \in TextResponses, okUpdate \in BOOLEAN :
       VerifySingle("s0", 1, envKey, input,
                    [usd |-> usd, cny |-> cny, order |-> order], okUpdate)
  \/ \E status \in {"approved", "rejected"}, okUpdate \in BOOLEAN :
       UpdateStatus("s0", 1, status, okUpdate)
  \/ \E ok \in BOOLEAN : LoadUserData("s0", ok)

SpecAudit == InitAudit /\ [][NextAudit]_vars

(***************************************************************************)
(* Properties of the audit system.                                          *)
(***************************************************************************)
\* the last handler ran the Audit Resolver and it returned an audited claim
Audited == lastOp.op = "verify" /\ lastOp.verdict = "audited"

\* an evidence image is attached
Supplied(image) == image \notin {Null, Undefined, Str(<<>>)}

\* a check carries an extracted amount
HasAmount(check) == check.extractedAmount \notin {Null, Undefined}

\* a check carries extracted text
HasText(check) ==
  Get(check, "extractedText") \notin {Null, Undefined, Str(<<>>)}

\* C3: the derived status is rejected whenever the USD check is not verified
\* and carries an amount, or the order-id check is not verified and carries
\* text, or a CNY image was supplied and the CNY check is not verified and
\* carries an amount.
C3_RejectedOnExtractedMismatch ==
  Audited =>
    LET res == lastOp.audit.updated.auditResult
        claim == lastOp.audit.item
    IN (\/ ~res.usdCheck.verified /\ HasAmount(res.usdCheck)
        \/ ~res.orderCheck.verified /\ HasText(res.orderCheck)
        \/ /\ Supplied(claim.creditCardDeductionScreenshotPrincipal)
           /\ ~res.cnyCheck.verified
           /\ HasAmount(res.cnyCheck))
       => lastOp.audit.updated.status = "rejected"

\* an unverified USD check with an amount rejected a claim whose order-id
\* check verified
C3_Witness ==
  /\ Audited
  /\ ~lastOp.audit.updated.auditResult.usdCheck.verified
  /\ HasAmount(lastOp.audit.updated.auditResult.usdCheck)
  /\ lastOp.audit.updated.auditResult.orderCheck.verified
  /\ lastOp.audit.updated.auditResult.cnyCheck.verified
  /\ lastOp.audit.updated.status = "rejected"

\* C4: the derived status is approved exactly when the USD check verified,
\* the order-id check verified, and no CNY image was supplied or the CNY
\* check verified.
C4_ApprovedExactlyWhenVerified ==
  Audited =>
    LET res == lastOp.audit.updated.auditResult
        claim == lastOp.audit.item
    IN lastOp.audit.updated.status = "approved"
       <=> (/\ res.usdCheck.verified
            /\ res.orderCheck.verified
            /\ (\/ ~Supplied(claim.creditCardDeductionScreenshotPrincipal)
                \/ res.cnyCheck.verified))

\* a claim without a CNY image was approved although its CNY check did not
\* verify
C4_Witness ==
  /\ Audited
  /\ ~Supplied(lastOp.audit.item.creditCardDeductionScreenshotPrincipal)
  /\ ~lastOp.audit.updated.auditResult.cnyCheck.verified
  /\ lastOp.audit.updated.status = "approved"

\* the USD check and the order-id check of the last audit are not verified
\* and extracted nothing
NothingExtracted ==
  /\ Audited
  /\ ~lastOp.audit.updated.auditResult.usdCheck.verified
  /\ ~HasAmount(lastOp.audit.updated.auditResult.usdCheck)
  /\ ~lastOp.audit.updated.auditResult.orderCheck.verified
  /\ ~HasText(lastOp.audit.updated.auditResult.orderCheck)

\* C5 as stated: when the USD check and the order-id check are not verified
\* and extracted nothing, the derived status is pending, whatever the CNY check
\* returned.
C5_PendingWhateverCny ==
  NothingExtracted => lastOp.audit.updated.status = "pending"

\* C5: when the USD check and the order-id check are not verified and
\* extracted nothing, the derived status is pending provided no CNY image was
\* supplied, or the CNY check verified, or the CNY check extracted no amount.
C5_PendingUnlessCnyMismatch ==
  (/\ NothingExtracted
   /\ (\/ ~Supplied(lastOp.audit.item.creditCardDeductionScreenshotPrincipal)
       \/ lastOp.audit.updated.auditResult.cnyCheck.verified
       \/ ~HasAmount(lastOp.audit.updated.auditResult.cnyCheck)))
  => lastOp.audit.updated.status = "pending"

\* nothing was extracted for USD and order id, the supplied CNY image
\* verified, and the claim stayed pending
C5_Witness ==
  /\ NothingExtracted
  /\ Supplied(lastOp.audit.item.creditCardDeductionScreenshotPrincipal)
  /\ lastOp.audit.updated.auditResult.cnyCheck.verified
  /\ lastOp.audit.updated.status = "pending"

\* C6: running the Audit Resolver on a claim with neither a USD transfer
\* proof image nor an order-id proof image fails with NoEvidence, makes no
\* collaborator call, issues no store update and leaves the stored and the
\* in-memory claims as they were.
C6_NoEvidenceLeavesClaim ==
  [][(/\ lastOp'.op = "verify"
      /\ lastOp'.audit # Undefined
      /\ ~Supplied(lastOp'.audit.item.ppTransferScreenshotPrincipal)
      /\ ~Supplied(lastOp'.audit.item.orderIdScreenshot))
       => (/\ lastOp'.verdict = "noEvidence"
           /\ lastOp'.aiCalls = 0
           /\ lastOp'.storeCalls = 0
           /\ db' = db
           /\ items' = items)]_vars

\* the Audit Resolver failed with NoEvidence on a claim that has a CNY image
\* only, and the stored claim is still pending without an audit result
C6_Witness ==
  /\ lastOp.op = "verify"
  /\ lastOp.verdict = "noEvidence"
  /\ ~Supplied(lastOp.audit.item.ppTransferScreenshotPrincipal)
  /\ ~Supplied(lastOp.audit.item.orderIdScreenshot)
  /\ Supplied(lastOp.audit.item.creditCardDeductionScreenshotPrincipal)
  /\ \E c \in db : /\ c.id = lastOp.audit.item.id
                   /\ c.status = "pending"
                   /\ c.auditResult = Undefined

(***************************************************************************)
(* The Duplicate Guard applied to claim lists and candidates.               *)
(***************************************************************************)
\* length of the claim lists the guard is applied to
MaxGuardLen == 2

\* order ids and expense-attributes as typed, with surrounding blanks and in
\* both letter cases
GuardOrderIds == {Str(<<"A">>), Str(<<" ", "A">>), Str(<<" ">>), Str(<<"a">>)}
GuardReasons ==
  {Undefined, Str(<<"P">>), Str(<<"P", " ">>), Str(<<"Q">>), Str(<<" ">>)}

\* a field the user left untouched, cleared or filled with a blank
GuardBlanks == {Undefined, Null, Str(<<>>), Str(<<" ">>)}

\* the fields of a claim the guard reads
GuardClaims(id) == [id : {id}, orderId : GuardOrderIds, itemReason : GuardReasons]

RECURSIVE GuardLists(_)
\* the lists of n claims with the ids n, ..., 1
GuardLists(n) ==
  IF n = 0 THEN {<<>>}
  ELSE {<<c>> \o l : c \in GuardClaims(n), l \in GuardLists(n - 1)}

\* the form state or quick-add row the guard is applied to
GuardCandidates ==
  [orderId : GuardOrderIds \cup GuardBlanks,
   itemReason : GuardReasons \cup GuardBlanks]

\* the duplicate check of ReimbursementForm.handleSubmit applied to a new
\* application (selfId 0) or to an edit of the claim selfId of the list
GuardForm(list, formData, selfId) ==
  /\ selfId \in {0} \cup {list[k].id : k \in 1..Len(list)}
  /\ probe' = [fn |-> "form", items |-> list, candidate |-> formData,
               selfId |-> selfId,
               duplicate |-> formDuplicate(list, formData, selfId)]
  /\ UNCHANGED <<db, items, nextId, today, lastOp, bulk>>

\* the duplicate check of ReimbursementList.submitQuickAdd
GuardQuick(list, newItem) ==
  /\ probe' = [fn |-> "quick", items |-> list, candidate |-> newItem,
               selfId |-> 0,
               duplicate |-> quickDuplicate(list, newItem)]
  /\ UNCHANGED <<db, items, nextId, today, lastOp, bulk>>

\* one application of the guard in a behaviour
NextGuard ==
  \/ /\ probe = Undefined
     /\ \E n \in 0..MaxGuardLen : \E list \in GuardLists(n) :
          \E formData \in GuardCandidates, selfId \in 0..MaxGuardLen :
            GuardForm(list, formData, selfId)
  \/ /\ probe = Undefined
     /\ \E n \in 0..MaxGuardLen : \E list \in GuardLists(n) :
          \E newItem \in GuardCandidates : GuardQuick(list, newItem)

SpecGuard == Init /\ [][NextGuard]_vars

\* the value as the guard's contract normalizes it
Trimmed(v) == IF v.t = "string" THEN trim(v.s) ELSE <<>>

\* the value is a non-empty string
NonEmpty(v) == v.t = "string" /\ v.s # <<>>

\* claim a and candidate b agree on trimmed order id and expense-attribute
SamePair(a, b) ==
  /\ Trimmed(a.orderId) = Trimmed(b.orderId)
  /\ Trimmed(a.itemReason) = Trimmed(b.itemReason)

\* C10 as stated: against every other claim with a non-empty order id and
\* expense-attribute, a candidate with non-empty ones is accepted only if the
\* two differ after trimming; and a rejection names such a claim.
C10_AcceptedDiffersNonEmpty ==
  probe # Undefined =>
    /\ \A k \in 1..Len(probe.items) :
         (/\ probe.items[k].id # probe.selfId
          /\ NonEmpty(probe.items[k].orderId)
          /\ NonEmpty(probe.items[k].itemReason)
          /\ NonEmpty(probe.candidate.orderId)
          /\ NonEmpty(probe.candidate.itemReason)
          /\ ~probe.duplicate)
         => ~SamePair(probe.items[k], probe.candidate)
    /\ probe.duplicate =>
         \E k \in 1..Len(probe.items) :
           /\ probe.items[k].id # probe.selfId
           /\ SamePair(probe.items[k], probe.candidate)

\* C10: against every other claim whose order id and expense-attribute are
\* non-empty after trimming, a candidate with ones non-empty after trimming
\* is accepted only if the two differ after trimming; and a rejection names
\* such a claim.
C10_AcceptedDiffersNonBlank ==
  probe # Undefined =>
    /\ \A k \in 1..Len(probe.items) :
         (/\ probe.items[k].id # probe.selfId
          /\ Trimmed(probe.items[k].orderId) # <<>>
          /\ Trimmed(probe.items[k].itemReason) # <<>>
          /\ Trimmed(probe.candidate.orderId) # <<>>
          /\ Trimmed(probe.candidate.itemReason) # <<>>
          /\ ~probe.duplicate)
         => ~SamePair(probe.items[k], probe.candidate)
    /\ probe.duplicate =>
         \E k \in 1..Len(probe.items) :
           /\ probe.items[k].id # probe.selfId
           /\ SamePair(probe.items[k], probe.candidate)

\* a candidate was accepted against a claim with the same trimmed order id
\* and a different expense-attribute
C10_Witness ==
  /\ probe # Undefined
  /\ ~probe.duplicate
  /\ \E k \in 1..Len(probe.items) :
       /\ probe.items[k].id # probe.selfId
       /\ Trimmed(probe.items[k].orderId) = <<"A">>
       /\ Trimmed(probe.candidate.orderId) = <<"A">>
       /\ probe.items[k].orderId # probe.candidate.orderId
       /\ Trimmed(probe.items[k].itemReason) = <<"P">>
       /\ Trimmed(probe.candidate.itemReason) = <<"Q">>

\* the value is blank: null, undefined, empty or whitespace only
Blank(v) == v \in {Null, Undefined} \/ (v.t = "string" /\ trim(v.s) = <<>>)

\* C11: a candidate whose order id or expense-attribute is blank after
\* trimming is never flagged as a duplicate, whatever claims exist.
C11_BlankNeverDuplicate ==
  (/\ probe # Undefined
   /\ Blank(probe.candidate.orderId) \/ Blank(probe.candidate.itemReason))
  => ~probe.duplicate

\* a candidate with a whitespace-only expense-attribute was accepted against
\* another claim with the same order id and a whitespace-only
\* expense-attribute
C11_Witness ==
  /\ probe # Undefined
  /\ probe.candidate.orderId = Str(<<"A">>)
  /\ probe.candidate.itemReason = Str(<<" ">>)
  /\ ~probe.duplicate
  /\ \E k \in 1..Len(probe.items) :
       /\ probe.items[k].id # probe.selfId
       /\ probe.items[k].orderId = Str(<<"A">>)
       /\ probe.items[k].itemReason = Str(<<" ">>)

\* the last application is an edit that keeps the edited claim's own order
\* id and expense-attribute
EditKeepsPair ==
  /\ probe # Undefined
  /\ probe.fn = "form"
  /\ \E k \in 1..Len(probe.items) :
       /\ probe.items[k].id = probe.selfId
       /\ probe.items[k].orderId = probe.candidate.orderId
       /\ probe.items[k].itemReason = probe.candidate.itemReason

\* another claim of the list has the candidate's trimmed order id and
\* expense-attribute
OtherSamePair ==
  \E k \in 1..Len(probe.items) :
    /\ probe.items[k].id # probe.selfId
    /\ SamePair(probe.items[k], probe.candidate)

\* C12 as stated: an edit that keeps the claim's own order id and
\* expense-attribute is rejected exactly when another claim has the same
\* trimmed order id and the same trimmed expense-attribute.
C12_EditRejectedIffOtherSame ==
  EditKeepsPair => (probe.duplicate <=> OtherSamePair)

\* C12: an edit that keeps the claim's own order id and expense-attribute is
\* rejected exactly when both are non-blank after trimming and another claim
\* has the same trimmed order id and the same trimmed expense-attribute.
C12_EditRejectedIffOtherSameNonBlank ==
  EditKeepsPair =>
    (probe.duplicate <=> (/\ ~Blank(probe.candidate.orderId)
                          /\ ~Blank(probe.candidate.itemReason)
                          /\ OtherSamePair))

\* an edit that keeps its own non-blank pair was accepted, and the only
\* claim with that pair is the edited one
C12_Witness ==
  /\ EditKeepsPair
  /\ ~Blank(probe.candidate.orderId)
  /\ ~Blank(probe.candidate.itemReason)
  /\ Len(probe.items) = 2
  /\ ~OtherSamePair
  /\ ~probe.duplicate

(***************************************************************************)
(* The Field Schema Engine applied to field-definition sets and form        *)
(* states.                                                                  *)
(***************************************************************************)
\* number of fields of a field-definition set
MaxFields == 3

\* a system number field, a system text field and a custom text field, each
\* required or optional
SchemaFields ==
  {Field("reportAmountUSD", "USD", "number", r, "reportAmountUSD", TRUE) :
     r \in BOOLEAN}
  \cup {Field("orderId", "Order", "text", r, "orderId", TRUE) : r \in BOOLEAN}
  \cup {Field("field_1", "Custom", "text", r, "", FALSE) : r \in BOOLEAN}

RECURSIVE SchemaConfigs(_)
\* the field-definition sets of n fields
SchemaConfigs(n) ==
  IF n = 0 THEN {<<>>}
  ELSE {Append(c, f) : c \in SchemaConfigs(n - 1),
                       f \in SchemaFields}

\* form states: typed text, a cleared input, a removed file (null), an
\* untouched field (undefined), the number 0 of a claim opened for editing
SchemaFormData ==
  [reportAmountUSD : {Undefined, Str(<<>>), Str(<<"5">>), Num(0)},
   orderId : {Undefined, Null, Str(<<>>), Str(<<" ">>), Str(<<"A">>)},
   customFields : {Undefined, EmptyObject,
                   [k \in {"field_1"} |-> Str(<<>>)],
                   [k \in {"field_1"} |-> Str(<<"x">>)],
                   [k \in {"field_1"} |-> Null]}]

\* the validation of handleSubmit applied to a form state
ValidateForm(config, formData) ==
  /\ probe' = [fn |-> "validate", config |-> config, formData |-> formData,
               missing |-> missingFields(config, formData),
               outcome |-> handleSubmit(<<>>, config, formData, Undefined,
                                        UserZhang, 1, 1).outcome]
  /\ UNCHANGED <<db, items, nextId, today, lastOp, bulk>>

\* one application of the validation in a behaviour
NextSchema ==
  /\ probe = Undefined
  /\ \E n \in 0..MaxFields : \E config \in SchemaConfigs(n) :
       \E formData \in SchemaFormData : ValidateForm(config, formData)

SpecSchema == Init /\ [][NextSchema]_vars

\* the labels of a sequence of fields
Labels(fields) == [i \in 1..Len(fields) |-> fields[i].label]

\* C13: validation reports exactly the labels of all required fields whose
\* resolved value is null, undefined or the empty string, in configuration
\* order; numeric zero is not missing; the submission is valid exactly when
\* that list is empty.
C13_ReportsAllMissingLabels ==
  (probe # Undefined /\ probe.fn = "validate") =>
    LET Unset(f) == /\ f.required
                    /\ getValue(f, probe.formData) \in {Null, Undefined, Str(<<>>)}
    IN /\ probe.missing = Labels(SelectSeq(probe.config, Unset))
       /\ (probe.outcome = "missing") <=> (probe.missing # <<>>)

\* of three required fields the order id (null) and the custom field (unset)
\* are reported, the amount 0 is not
C13_Witness ==
  /\ probe # Undefined
  /\ probe.fn = "validate"
  /\ Len(probe.config) = 3
  /\ \A i \in 1..3 : probe.config[i].required
  /\ probe.formData.reportAmountUSD = Num(0)
  /\ probe.formData.orderId = Null
  /\ probe.formData.customFields = Undefined
  /\ Len(probe.missing) = 2
  /\ probe.outcome = "missing"

(***************************************************************************)
(* The Identifier Generator applied once to a user, a claim list and a day. *)
(***************************************************************************)
MaxIdItems == 2

\* a user whose display name has six characters, and a user without display
\* name (chinese_name NULL is read as '') whose login name has seven
UserSix == [id |-> "u3", username |-> <<"z", "s", "l">>,
            chineseName |-> <<"zhang", "san", "li", "si", "wang", "zhao">>, role |-> "user"]
UserLegacy == [id |-> "u4", username |-> <<"w", "a", "n", "g", "w", "u", "1">>,
               chineseName |-> <<>>, role |-> "user"]
IdUsers == {UserZhang, UserAdmin, UserSix, UserLegacy}
IdDays == {1, 2}

\* the autoId values of the claims of the lists: none (a claim stored before
\* identifiers existed), and identifiers of several users and days
IdAutoIds ==
  {Undefined,
   Str(<<"Z", "S">> \o dateStr(1) \o <<"0", "0", "1">>),
   Str(<<"Z", "S">> \o dateStr(2) \o <<"0", "0", "1">>),
   Str(<<"A", "D", "M", "I", "N">> \o dateStr(1) \o <<"0", "0", "1">>),
   Str(<<"W", "A", "N", "G", "W">> \o dateStr(1) \o <<"0", "0", "5">>)}

RECURSIVE IdLists(_)
IdLists(n) ==
  IF n = 0 THEN {<<>>}
  ELSE LET shorter == IdLists(n - 1)
       IN shorter \cup {<<[id |-> Len(l) + 1, autoId |-> a]>> \o l : l \in {x \in shorter : Len(x) = n - 1}, a \in IdAutoIds}

\* generateReimbursementId(user, allItems) on day `day`, called twice, and
\* called again after the claim that carries the new identifier was
\* prepended to the list (ReimbursementForm.handleSubmit, App's optimistic add)
GenerateId(user, allItems, day) ==
  LET id == generateReimbursementId(user, allItems, day)
  IN /\ probe' = [fn |-> "generateId", user |-> user, allItems |-> allItems, day |-> day,
                  id |-> id,
                  again |-> generateReimbursementId(user, allItems, day),
                  next |-> generateReimbursementId(user, <<[id |-> 0, autoId |-> id]>> \o allItems, day)]
     /\ UNCHANGED <<db, items, nextId, today, lastOp, bulk>>

NextId ==
  /\ probe = Undefined
  /\ \E user \in IdUsers : \E allItems \in IdLists(MaxIdItems) : \E day \in IdDays :
       GenerateId(user, allItems, day)

SpecId == Init /\ [][NextId]_vars

\* the calendar date the claim text writes as YYYYMMDD
YYYYMMDD(day) ==
  IF day = 1 THEN <<"2", "0", "2", "4", "0", "3", "1", "5">>
             ELSE <<"2", "0", "2", "4", "0", "3", "1", "6">>

\* the identifier without its date and sequence parts, given the date part
\* has eight and the sequence part three characters
InitialsPart(id) == SubSeq(id, 1, Len(id) - 11)
DatePart(id) == SubSeq(id, Len(id) - 10, Len(id) - 3)
SeqPart(id) == SubSeq(id, Len(id) - 2, Len(id))

ThreeDigits(n) == <<Digit(n \div 100), Digit((n \div 10) % 10), Digit(n % 10)>>

\* the claims of the probed list whose identifier starts with the prefix
SamePrefix(prefix) ==
  {k \in 1..Len(probe.allItems) :
     /\ probe.allItems[k].autoId # Undefined
     /\ Len(probe.allItems[k].autoId.s) >= Len(prefix)
     /\ SubSeq(probe.allItems[k].autoId.s, 1, Len(prefix)) = prefix}

\* C14: the identifier is INITIALS + YYYYMMDD + SEQ, SEQ being three
\* zero-padded digits that write the number of identifiers of the list with
\* the same INITIALS + YYYYMMDD prefix plus one; a second call on the same
\* list returns the same identifier, and a call on the list with one more
\* claim of that prefix returns the next sequence number.
C14_IdIsPrefixPlusCount ==
  (probe # Undefined /\ probe.fn = "generateId") =>
    LET id == probe.id.s
        prefix == InitialsPart(id) \o DatePart(id)
        n == Cardinality(SamePrefix(prefix))
    IN /\ Len(id) >= 11
       /\ DatePart(id) = YYYYMMDD(probe.day)
       /\ SeqPart(id) = ThreeDigits(n + 1)
       /\ probe.again = probe.id
       /\ probe.next.s = prefix \o ThreeDigits(n + 2)
       /\ (n = 0 => SeqPart(id) = <<"0", "0", "1">>)
       /\ (n = 1 => SeqPart(id) = <<"0", "0", "2">>)

C14_Witness ==
  /\ probe # Undefined /\ probe.fn = "generateId"
  /\ probe.user = UserZhang /\ probe.day = 1
  /\ Len(probe.allItems) = 2
  /\ Cardinality(SamePrefix(<<"Z", "S">> \o YYYYMMDD(1))) = 1
  /\ probe.id.s = <<"Z", "S">> \o YYYYMMDD(1) \o <<"0", "0", "2">>
  /\ probe.next.s = <<"Z", "S">> \o YYYYMMDD(1) \o <<"0", "0", "3">>

\* C15: the INITIALS part of a generated identifier has at most five
\* characters, whether it comes from the display name or from the login name.
C15_InitialsAtMostFive ==
  (probe # Undefined /\ probe.fn = "generateId") => Len(InitialsPart(probe.id.s)) <= 5

(***************************************************************************)
(* Concurrent submissions (specification Spec: the sessions of two users    *)
(* whose display names give the same initials, on the same day).            *)
(***************************************************************************)
\* the number of claims of a session's list whose identifier has the prefix
SnapshotCount(list, prefix) ==
  Cardinality({k \in 1..Len(list) :
                 /\ list[k].autoId # Undefined
                 /\ Len(list[k].autoId.s) >= Len(prefix)
                 /\ SubSeq(list[k].autoId.s, 1, Len(prefix)) = prefix})

\* C16: a submission whose session list shows as many identifiers of its
\* INITIALS + YYYYMMDD prefix as the list of an earlier submission of the
\* same prefix did gets the identifier of that earlier claim; the insert is
\* accepted as its only store write, followed by the reload, and the store
\* then holds both claims, with different internal ids and the same autoId.
C16_SameSnapshotSameId ==
  [][(lastOp'.op \in {"submit", "quickAdd"} /\ lastOp'.verdict = "accepted"
        /\ ~lastOp'.storeFailed) =>
       /\ lastOp'.storeCalls = 2
       /\ \E n \in db' :
            /\ n \notin db
            /\ db' = db \cup {n}
            /\ \A s \in UserSessions : sessionUser(s).id = n.userId =>
                 LET prefix == <<"Z", "S">> \o YYYYMMDD(today)
                     seq == ThreeDigits(SnapshotCount(items[s], prefix) + 1)
                 IN \A c \in db :
                      c.autoId.s = prefix \o seq =>
                        /\ n.autoId = c.autoId
                        /\ n.id # c.id
                        /\ {c, n} \subseteq db']_vars

C16_Witness ==
  /\ lastOp.op \in {"submit", "quickAdd"} /\ lastOp.verdict = "accepted"
  /\ InSync
  /\ \E a, b \in db : a.id # b.id /\ a.userId # b.userId /\ a.autoId = b.autoId

(***************************************************************************)
(* Collaborator failures within one audit (specification SpecAudit).        *)
(***************************************************************************)
\* the result of a check whose collaborator call failed
FailedCheck(check) ==
  /\ check.verified = FALSE
  /\ ~HasAmount(check)
  /\ ~HasText(check)
  /\ check.reason = "AI Error"

\* the result of an amount check, as a function of its own image and of the
\* collaborator's answer to its own call
AmountCheckAlone(check, image, response) ==
  IF ~Supplied(image) THEN ~check.verified /\ ~HasAmount(check) /\ check.reason # "AI Error"
  ELSE IF ~response.ok THEN FailedCheck(check)
  ELSE /\ check.verified = response.matches
       /\ check.extractedAmount = response.extractedAmount
       /\ check.reason # "AI Error"

\* the same for the order-id check
TextCheckAlone(check, image, response) ==
  IF ~Supplied(image) THEN ~check.verified /\ ~HasText(check) /\ check.reason # "AI Error"
  ELSE IF ~response.ok THEN FailedCheck(check)
  ELSE /\ check.verified = response.matches
       /\ Get(check, "extractedText") = response.foundText
       /\ check.reason # "AI Error"

\* the image the order-id check reads
OrderImage(claim) ==
  IF Supplied(claim.orderIdScreenshot) THEN claim.orderIdScreenshot
  ELSE claim.ppTransferScreenshotPrincipal

\* C17: in an audit that called the collaborator, a check whose call failed
\* has verified = FALSE, nothing extracted and the failure as its reason;
\* each check's result depends on its own image and its own call only, so the
\* other two are what they are without the failure; the audit ends as an
\* audit (no error reaches the resolver) and the claim with the three results
\* is written to the list, and to the store when the update succeeds.
C17_FailureStaysInItsCheck ==
  (Audited /\ lastOp.aiCalls > 0) =>
    LET claim == lastOp.audit.item
        res == lastOp.audit.updated.auditResult
        r == lastOp.audit.responses
    IN /\ AmountCheckAlone(res.usdCheck, claim.ppTransferScreenshotPrincipal, r.usd)
       /\ AmountCheckAlone(res.cnyCheck, claim.creditCardDeductionScreenshotPrincipal, r.cny)
       /\ TextCheckAlone(res.orderCheck, OrderImage(claim), r.order)
       /\ \A check \in {res.usdCheck, res.cnyCheck, res.orderCheck} :
            check.verified \in BOOLEAN /\ "reason" \in DOMAIN check
       /\ \E k \in 1..Len(items["s0"]) :
            items["s0"][k].id = claim.id /\ items["s0"][k].auditResult = res
       /\ ~lastOp.storeFailed =>
            \E c \in db : c.id = claim.id /\ c.auditResult = res

C17_Witness ==
  /\ Audited /\ lastOp.aiCalls = 3
  /\ ~lastOp.audit.responses.usd.ok
  /\ lastOp.audit.responses.cny.ok /\ lastOp.audit.responses.cny.matches
  /\ lastOp.audit.responses.order.ok /\ lastOp.audit.responses.order.matches
  /\ FailedCheck(lastOp.audit.updated.auditResult.usdCheck)
  /\ lastOp.audit.updated.auditResult.cnyCheck.verified
  /\ lastOp.audit.updated.auditResult.orderCheck.verified
  /\ \E c \in db : c.auditResult = lastOp.audit.updated.auditResult

(***************************************************************************)
(* AuditDashboard.handleBulkVerify: the batch run, one step per await.      *)
(***************************************************************************)
MaxBulk == 2

\* the number of batch runs the administrator starts
MaxRuns == 1

\* what the user typed into the quick-add row for the n-th claim: its own
\* order id, with or without the PP transfer screenshot, no order screenshot
BulkInputs(n) ==
  [storeName : {Str(<<"S">>)},
   orderId : {Str(NatToString(n))},
   companySKU : {Str(<<"K">>)},
   reportAmountUSD : {Str(<<"5">>)},
   reimburseAmountCNY : {Str(<<"7">>)},
   itemReason : {Str(<<"P">>)},
   ppTransferScreenshotPrincipal : {Undefined, Image},
   creditCardDeductionScreenshotPrincipal : {Image},
   orderIdScreenshot : {Undefined}]

RECURSIVE BulkStores(_)
\* the tables after UserZhang entered n claims through the quick-add row
BulkStores(n) ==
  IF n = 0 THEN {{}}
  ELSE {saveReimbursement(rows, submitQuickAdd(getReimbursements(UserZhang, rows, TRUE), quickNewItem(inp), UserZhang, n, 1).item) : rows \in BulkStores(n - 1), inp \in BulkInputs(n)}

\* what the collaborator does with the three calls of one audit
BulkResponses ==
  {[usd |-> [ok |-> FALSE], cny |-> [ok |-> FALSE], order |-> [ok |-> FALSE]],
   [usd |-> [ok |-> FALSE],
    cny |-> [ok |-> TRUE, matches |-> TRUE, extractedAmount |-> Num(5)],
    order |-> [ok |-> TRUE, matches |-> TRUE, foundText |-> Str(<<"A">>)]],
   [usd |-> [ok |-> TRUE, matches |-> TRUE, extractedAmount |-> Num(5)],
    cny |-> [ok |-> TRUE, matches |-> TRUE, extractedAmount |-> Num(5)],
    order |-> [ok |-> TRUE, matches |-> TRUE, foundText |-> Str(<<"A">>)]]}

\* the element of selectedList the run is at
BulkItem(b) == b.selectedList[b.i + 1]

\* after the loop: setIsProcessing(false); if (sCount > 0) setSelectedIds(new Set())
BulkFinish(b) ==
  [b EXCEPT !.pc = "done", !.isProcessing = FALSE,
            !.selectedIds = IF b.sCount > 0 THEN {} ELSE @,
            !.log = Append(@, [ev |-> "end"])]

\* a batch run without the delay between items
BulkDelayNeeded_never(i) == FALSE

\* if (i > 0) await new Promise(r => setTimeout(r, 1500))
BulkDelayNeeded(i) == i > 0

RECURSIVE BulkBeginAudit(_)

\* the loop test and the iteration up to its first await: the delay, or the
\* call of runAuditForItem
BulkNextIteration(b) ==
  IF b.i >= Len(b.selectedList) THEN BulkFinish(b)
  ELSE IF BulkDelayNeeded(b.i)
    THEN [b EXCEPT !.pc = "delay",
                   !.log = Append(@, [ev |-> "delay", k |-> b.i + 1])]
  ELSE BulkBeginAudit(b)

\* BulkBeginAudit without the catch around the iteration: a claim without
\* evidence ends the run
BulkBeginAudit_noCatch(b) ==
  IF runAuditForItem(BulkItem(b), b.apiKey, b.apiKey, CHOOSE r \in BulkResponses : TRUE, 0).outcome = "noEvidence"
    THEN BulkFinish([b EXCEPT !.log = Append(@, [ev |-> "start", k |-> b.i + 1, id |-> BulkItem(b).id])])
    ELSE [b EXCEPT !.pc = "audit",
                   !.log = Append(@, [ev |-> "start", k |-> b.i + 1, id |-> BulkItem(b).id])]

\* the call of runAuditForItem(item, apiKey): it throws for a claim without
\* evidence, which the catch counts before the next iteration, and it awaits
\* performFullAudit otherwise (apiKey is truthy, so performFullAudit uses it
\* whatever getApiKey() returns)
BulkBeginAudit(b) ==
  IF runAuditForItem(BulkItem(b), b.apiKey, b.apiKey, CHOOSE r \in BulkResponses : TRUE, 0).outcome = "noEvidence"
    THEN BulkNextIteration([b EXCEPT !.fCount = @ + 1, !.i = @ + 1,
                                     !.log = @ \o <<[ev |-> "start", k |-> b.i + 1, id |-> BulkItem(b).id],
                                                     [ev |-> "fail", k |-> b.i + 1, cause |-> "noEvidence"]>>])
    ELSE [b EXCEPT !.pc = "audit",
                   !.log = Append(@, [ev |-> "start", k |-> b.i + 1, id |-> BulkItem(b).id])]

\* handleSelectRow(id) on a row of the list
HandleSelectRow(s, k) ==
  /\ k \in 1..Len(items[s])
  /\ sessionUser(s).role = "admin"
  /\ bulk' = [bulk EXCEPT !.selectedIds = IF items[s][k].id \in @ THEN @ \ {items[s][k].id}
                                          ELSE @ \cup {items[s][k].id}]
  /\ UNCHANGED <<db, items, nextId, today, lastOp, probe>>

\* handleBulkVerify up to its first await; the button is disabled while a
\* run is processing or nothing is selected
HandleBulkVerify(s, envKey, input) ==
  /\ sessionUser(s).role = "admin"
  /\ ~bulk.isProcessing
  /\ bulk.selectedIds # {}
  /\ bulk.runs < MaxRuns
  /\ LET selectedList == SelectSeq(items[s], LAMBDA it : it.id \in bulk.selectedIds)
         apiKey == IF Truthy(envKey) THEN envKey ELSE Str(trim(input.s))
     IN IF Len(selectedList) = 0
          THEN /\ lastOp' = Op("bulkVerify", "noneSelected", FALSE, 0, FALSE, TRUE)
               /\ UNCHANGED bulk
        ELSE IF ~Truthy(envKey) /\ (~Truthy(input) \/ trim(input.s) = <<>>)
          THEN /\ lastOp' = Op("bulkVerify", "noKey", FALSE, 0, FALSE, FALSE)
               /\ UNCHANGED bulk
        ELSE /\ lastOp' = Op("bulkVerify", "started", FALSE, 0, FALSE, FALSE)
             /\ bulk' = BulkNextIteration([bulk EXCEPT !.isProcessing = TRUE,
                                                       !.selectedList = selectedList,
                                                       !.i = 0, !.sCount = 0, !.fCount = 0,
                                                       !.apiKey = apiKey,
                                                       !.updated = Undefined,
                                                       !.runs = @ + 1,
                                                       !.log = <<[ev |-> "run", ids |-> bulk.selectedIds]>>])
  /\ UNCHANGED <<db, items, nextId, today, probe>>

\* the timer of `if (i > 0) await new Promise(r => setTimeout(r, 1500))` fires
BulkDelayDone ==
  /\ bulk.pc = "delay"
  /\ bulk' = BulkBeginAudit(bulk)
  /\ UNCHANGED <<db, items, nextId, today, lastOp, probe>>

\* performFullAudit resolves: runAuditForItem returns the audited claim and
\* onUpdateItem(updated) replaces it in the list and sends the update
BulkAuditDone(s, responses) ==
  /\ bulk.pc = "audit"
  /\ LET plan == runAuditForItem(BulkItem(bulk), bulk.apiKey, bulk.apiKey, responses, today)
     IN /\ items' = [items EXCEPT ![s] = handleAuditUpdate(items[s], db, plan.item, FALSE).items]
        /\ bulk' = [bulk EXCEPT !.pc = "write", !.updated = plan.item,
                                !.log = Append(@, [ev |-> "audited", k |-> bulk.i + 1,
                                                   aiError |-> ~responses.usd.ok \/ ~responses.cny.ok \/ ~responses.order.ok])]
  /\ UNCHANGED <<db, nextId, today, lastOp, probe>>

\* storage.updateReimbursement resolves (sCount++) or throws (fCount++)
BulkWriteDone(okUpdate) ==
  /\ bulk.pc = "write"
  /\ db' = IF okUpdate THEN updateReimbursement(db, bulk.updated) ELSE db
  /\ bulk' = BulkNextIteration(
               [bulk EXCEPT !.sCount = IF okUpdate THEN @ + 1 ELSE @,
                            !.fCount = IF okUpdate THEN @ ELSE @ + 1,
                            !.i = @ + 1,
                            !.updated = Undefined,
                            !.log = Append(@, IF okUpdate THEN [ev |-> "ok", k |-> bulk.i + 1]
                                              ELSE [ev |-> "fail", k |-> bulk.i + 1, cause |-> "store"])])
  /\ UNCHANGED <<items, nextId, today, lastOp, probe>>

InitBulk ==
  /\ db \in BulkStores(MaxBulk)
  /\ items = [s \in Sessions |-> getReimbursements(sessionUser(s), db, TRUE)]
  /\ nextId = MaxBulk + 1
  /\ today = 1
  /\ lastOp = Op("init", "none", FALSE, 0, FALSE, FALSE)
  /\ probe = Undefined
  /\ bulk = BulkIdle

\* the steps an awaited timer, collaborator call or store call resumes the run at
BulkProgress ==
  \/ BulkDelayDone
  \/ \E responses \in BulkResponses : BulkAuditDone("s0", responses)
  \/ \E okUpdate \in BOOLEAN : BulkWriteDone(okUpdate)

NextBulk ==
  \/ \E k \in 1..MaxBulk : HandleSelectRow("s0", k)
  \/ \E envKey \in EnvKeys, input \in PromptInputs : HandleBulkVerify("s0", envKey, input)
  \/ BulkDelayDone
  \/ \E responses \in BulkResponses : BulkAuditDone("s0", responses)
  \/ \E okUpdate \in BOOLEAN : BulkWriteDone(okUpdate)

SpecBulk == InitBulk /\ [][NextBulk]_vars

\* a timer fires, and a call to the collaborator or to the store returns or fails
SpecBulkFair == SpecBulk /\ WF_vars(BulkProgress)

(***************************************************************************)
(* Properties of the batch run (specifications SpecBulk and SpecBulkFair).  *)
(***************************************************************************)
\* the positions of the run's log that hold an event of kind ev for item k
LogAt(ev, k) ==
  {p \in 1..Len(bulk.log) : bulk.log[p].ev = ev /\ bulk.log[p].k = k}

\* the items of the run's log, in the order their audits started
Attempted ==
  LET starts == SelectSeq(bulk.log, LAMBDA e : e.ev = "start")
  IN [j \in 1..Len(starts) |-> starts[j].id]

\* the ids of the claims that were selected when the run started, in the
\* order of the administrator's list
SelectedInListOrder ==
  LET chosen == SelectSeq(items["s0"], LAMBDA it : it.id \in bulk.log[1].ids)
  IN [j \in 1..Len(chosen) |-> chosen[j].id]

BulkEnded == bulk.pc = "done"

\* item k of the run had no evidence, a failing collaborator call, or a
\* failing store write
FailedAsStated(k) ==
  \/ \E p \in LogAt("fail", k) : TRUE
  \/ \E p \in LogAt("audited", k) : bulk.log[p].aiError

\* item k of the run had no evidence or a failing store write
FailedNoEvidenceOrStore(k) ==
  \E p \in LogAt("fail", k) : bulk.log[p].cause \in {"noEvidence", "store"}

\* every selected claim was attempted once, in list order, and the run left
\* the processing flag cleared
AttemptedAllOnce ==
  /\ Attempted = SelectedInListOrder
  /\ Len(Attempted) = Len(bulk.selectedList)
  /\ \A k \in 1..Len(bulk.selectedList) : Cardinality(LogAt("start", k)) = 1
  /\ bulk.sCount + bulk.fCount = Len(bulk.selectedList)
  /\ ~bulk.isProcessing

InFlight ==
  {k \in 1..Len(bulk.selectedList) :
     LogAt("start", k) # {} /\ LogAt("ok", k) = {} /\ LogAt("fail", k) = {}}

\* C19: at most one item of a run is in flight; the audit of item k + 1
\* starts right after the delay of item k + 1, which starts right after the
\* audit and write-back of item k completed or failed; the first item starts
\* without a delay.
C19_OneInFlightDelayBetween ==
  /\ Cardinality(InFlight) <= 1
  /\ \A p \in 1..Len(bulk.log) :
       /\ bulk.log[p].ev = "start" =>
            IF bulk.log[p].k = 1 THEN p = 2
            ELSE /\ p > 3
                 /\ bulk.log[p - 1] = [ev |-> "delay", k |-> bulk.log[p].k]
                 /\ bulk.log[p - 2].ev \in {"ok", "fail"}
                 /\ bulk.log[p - 2].k = bulk.log[p].k - 1
       /\ bulk.log[p].ev = "delay" => bulk.log[p].k > 1
       /\ bulk.log[p].ev = "audited" => bulk.log[p - 1].ev = "start" /\ bulk.log[p - 1].k = bulk.log[p].k
       /\ bulk.log[p].ev = "ok" => bulk.log[p - 1].ev = "audited" /\ bulk.log[p - 1].k = bulk.log[p].k

C19_Witness ==
  /\ bulk.pc = "audit" /\ bulk.i = 1
  /\ InFlight = {2}
  /\ LogAt("delay", 2) # {}
  /\ LogAt("ok", 1) # {}

(***************************************************************************)
(* Submissions, manual status changes and edits: a user enters and edits    *)
(* claims while the administrator approves and rejects them.                *)
(***************************************************************************)
\* what the user types: one order id, every image, no expense attribute
EditInputs ==
  {inp \in FormInputs : /\ inp.orderId = Str(<<"A">>)
                        /\ inp.ppTransferScreenshotPrincipal = Image
                        /\ inp.itemReason = Undefined}

NextEdit ==
  \/ \E inp \in EditInputs, okSave, okLoad \in BOOLEAN :
       SubmitForm("s1", inp, okSave, okLoad)
  \/ \E inp \in EditInputs, okSave, okLoad \in BOOLEAN :
       QuickAdd("s1", inp, okSave, okLoad)
  \/ \E k \in 1..MaxClaims, status \in {"approved", "rejected"}, okUpdate \in BOOLEAN :
       UpdateStatus("s0", k, status, okUpdate)
  \/ \E k \in 1..MaxClaims, inp \in EditInputs, okUpdate \in BOOLEAN :
       EditForm("s1", k, inp, okUpdate)
  \/ \E s \in {"s0", "s1"}, ok \in BOOLEAN : LoadUserData(s, ok)

SpecEdit == Init /\ [][NextEdit]_vars

\* the elements of a list, as a set
Elements(list) == {list[k] : k \in 1..Len(list)}

\* C20: a claim that an accepted submission (full form or quick-add row)
\* inserts has status pending, and the claim an accepted edit writes, to the
\* list and (when the update succeeds) to the store, has status pending,
\* whatever its status was (an edit that leaves the store as it is was the
\* edit of a pending claim, or of a claim whose insert had failed).
C20_CreatedAndEditedArePending ==
  [][/\ (lastOp'.op \in {"submit", "quickAdd"} /\ lastOp'.verdict = "accepted") =>
          /\ \A c \in db' \ db : c.status = "pending"
          /\ \A c \in Elements(items'["s1"]) :
               (\A r \in db \cup Elements(items["s1"]) : r.id # c.id) => c.status = "pending"
          /\ ~lastOp'.storeFailed => db' \ db # {}
     /\ (lastOp'.op = "edit" /\ lastOp'.verdict = "accepted") =>
          /\ lastOp'.before \in {"pending", "approved", "rejected"}
          /\ \A c \in Elements(items'["s1"]) \ Elements(items["s1"]) : c.status = "pending"
          /\ items'["s1"] = items["s1"] => \E c \in Elements(items["s1"]) : c.status = "pending"
          /\ ~lastOp'.storeFailed =>
               /\ \A c \in db' \ db : c.status = "pending"
               /\ db' = db =>
                    \/ \E c \in db : c.userId = "u1" /\ c.status = "pending"
                    \/ \E c \in Elements(items["s1"]) : \A r \in db : r.id # c.id]_vars

\* an accepted edit has just turned an approved claim of the store into a
\* pending one
C20_Witness ==
  /\ lastOp.op = "edit" /\ lastOp.verdict = "accepted" /\ ~lastOp.storeFailed
  /\ lastOp.before = "approved"
  /\ db # {}
  /\ \A c \in db : c.status = "pending"
  /\ \A c \in Elements(items["s1"]) : c.status = "pending"

(***************************************************************************)
(* Roles: the owner of a claim and the administrator act on it, each        *)
(* through every handler that takes a claim.                                *)
(***************************************************************************)
\* a response of the collaborator whose USD amount does not match
MismatchResponses ==
  [usd |-> [ok |-> TRUE, matches |-> FALSE, extractedAmount |-> Num(0)],
   cny |-> [ok |-> TRUE, matches |-> TRUE, extractedAmount |-> Num(5)],
   order |-> [ok |-> TRUE, matches |-> TRUE, foundText |-> Str(<<"A">>)]]

RoleResponses == BulkResponses \cup {MismatchResponses}

RoleSessions == {"s0", "s1"}

\* an empty store; the user enters one claim fewer than in Spec
InitRoles ==
  /\ db = {}
  /\ items = [s \in Sessions |-> <<>>]
  /\ nextId = 2
  /\ today = 1
  /\ lastOp = Op("init", "none", FALSE, 0, FALSE, FALSE)
  /\ probe = Undefined
  /\ bulk = BulkIdle

NextRoles ==
  \/ \E inp \in EditInputs, okSave, okLoad \in BOOLEAN :
       SubmitForm("s1", inp, okSave, okLoad)
  \/ \E inp \in EditInputs, okSave, okLoad \in BOOLEAN :
       QuickAdd("s1", inp, okSave, okLoad)
  \/ \E k \in 1..MaxClaims, inp \in EditInputs, okUpdate \in BOOLEAN :
       EditForm("s1", k, inp, okUpdate)
  \/ \E s \in RoleSessions, k \in 1..MaxClaims, status \in {"approved", "rejected"}, okUpdate \in BOOLEAN :
       UpdateStatus(s, k, status, okUpdate)
  \/ \E s \in RoleSessions, k \in 1..MaxClaims, responses \in RoleResponses, okUpdate \in BOOLEAN :
       VerifySingle(s, k, Str(<<"k">>), Null, responses, okUpdate)
  \/ \E s \in RoleSessions, ok \in BOOLEAN : LoadUserData(s, ok)

SpecRoles == InitRoles /\ [][NextRoles]_vars

Decided == {"approved", "rejected"}

\* C21: a step that gives a stored claim the status approved or rejected is
\* a manual status action or an audit that the administrator's session ran
\* (its list holds the claim as stored, the user's list is untouched); the
\* handlers run by the user's session (submit, quick-add, edit, manual status
\* action, single verify) put no approved or rejected claim into the user's
\* list that the store did not hold already.
C21_OnlyAdminDecides ==
  [][/\ \A c \in db' :
          (c.status \in Decided /\ \A r \in db : r.id = c.id => r.status # c.status) =>
            /\ lastOp'.op \in {"updateStatus", "verify"}
            /\ lastOp'.verdict \in {"accepted", "audited"}
            /\ c \in Elements(items'["s0"])
            /\ items'["s1"] = items["s1"]
     /\ \A c \in Elements(items'["s1"]) \ Elements(items["s1"]) :
          c.status \in Decided => c \in db
     /\ lastOp'.verdict = "notAdmin" => db' = db /\ items' = items]_vars

\* the user's session has just run the manual status action or the single
\* verify on its claim, which is still pending everywhere
C21_Witness ==
  /\ lastOp.op \in {"updateStatus", "verify"}
  /\ lastOp.verdict = "notAdmin"
  /\ db # {}
  /\ \A c \in db : c.status = "pending"
  /\ items["s1"] # <<>>
  /\ \A c \in Elements(items["s1"]) : c.status = "pending"

(***************************************************************************)
(* Whitespace and letter case in the Duplicate Guard (SpecGuard).           *)
(***************************************************************************)
\* the characters of a typed value without its blanks (the values of the
\* harness have no inner blank), and the same in upper case
Strip(v) == IF v.t = "string" THEN SelectSeq(v.s, LAMBDA ch : ch # " ") ELSE <<>>
Fold(v) == [j \in 1..Len(Strip(v)) |-> IF Strip(v)[j] = "a" THEN "A" ELSE Strip(v)[j]]

\* the claims of the probed list other than the one being edited
Others == {k \in 1..Len(probe.items) : probe.items[k].id # probe.selfId}

\* C22: a candidate with a non-blank order id and expense-attribute is
\* rejected when another claim has the same two values up to surrounding
\* whitespace, and it is accepted when no other claim has, in particular when
\* another claim's order id is a case variant of the candidate's.
C22_TrimOnlyNoCaseFold ==
  (probe # Undefined /\ Strip(probe.candidate.orderId) # <<>> /\ Strip(probe.candidate.itemReason) # <<>>) =>
    /\ (\E k \in Others : /\ Strip(probe.items[k].orderId) = Strip(probe.candidate.orderId)
                          /\ Strip(probe.items[k].itemReason) = Strip(probe.candidate.itemReason))
         => probe.duplicate
    /\ (\A k \in Others : \/ Strip(probe.items[k].orderId) # Strip(probe.candidate.orderId)
                          \/ Strip(probe.items[k].itemReason) # Strip(probe.candidate.itemReason))
         => ~probe.duplicate

\* the candidate "a" was accepted against a claim "A" with the same
\* expense-attribute
C22_Witness ==
  /\ probe # Undefined
  /\ probe.candidate.orderId = Str(<<"a">>)
  /\ probe.candidate.itemReason = Str(<<"P">>)
  /\ \E k \in Others : /\ probe.items[k].orderId = Str(<<" ", "A">>)
                       /\ probe.items[k].itemReason = Str(<<"P", " ">>)
                       /\ Fold(probe.items[k].orderId) = Fold(probe.candidate.orderId)
  /\ ~probe.duplicate

(***************************************************************************)
(* getReimbursements applied once to a table and a user.                    *)
(***************************************************************************)
MaxRows == 3

\* the tables of up to n rows with the ids 1..n, each owned by one of the
\* two users and created at one of n instants (two rows can share one)
RECURSIVE ListTables(_)
ListTables(n) ==
  IF n = 0 THEN {{}}
  ELSE LET smaller == ListTables(n - 1)
       IN smaller \cup {t \cup {[id |-> n, userId |-> o, createdAt |-> c]} : t \in {x \in smaller : Cardinality(x) = n - 1}, o \in {UserZhang.id, UserZhao.id}, c \in 1..MaxRows}

\* the table after one user entered one claim more than a query returns
FullTable == {[id |-> i, userId |-> UserZhang.id, createdAt |-> i] : i \in 1..(QueryLimit + 1)}

ListClaims(currentUser, rows, ok) ==
  /\ probe' = [fn |-> "list", user |-> currentUser, rows |-> rows, ok |-> ok,
               result |-> getReimbursements(currentUser, rows, ok)]
  /\ UNCHANGED <<db, items, nextId, today, lastOp, bulk>>

NextList ==
  /\ probe = Undefined
  /\ \E currentUser \in {UserAdmin, UserZhang, UserZhao} :
       \E rows \in ListTables(MaxRows) \cup (IF currentUser.role = "admin" THEN {FullTable} ELSE {}) :
         \E ok \in BOOLEAN : ListClaims(currentUser, rows, ok)

SpecList == Init /\ [][NextList]_vars

\* C23: a listing whose query succeeds returns, without repetition, every
\* row of the table for an administrator and exactly the rows the user owns
\* for another user, ordered by creation instant, newest first.
C23_ListsEveryClaimNewestFirst ==
  (probe # Undefined /\ probe.fn = "list" /\ probe.ok) =>
    LET scope == IF probe.user.role = "admin" THEN probe.rows
                 ELSE {r \in probe.rows : r.userId = probe.user.id}
    IN /\ Elements(probe.result) = scope
       /\ Len(probe.result) = Cardinality(scope)
       /\ \A i \in 1..Len(probe.result) - 1 :
            probe.result[i].createdAt >= probe.result[i + 1].createdAt

(***************************************************************************)
(* Form builder (SettingsPanel) over the settings row 'global'.  The state  *)
(* of the panel, of App.settings and of the row is kept in probe.           *)
(***************************************************************************)
MaxEdits == 2

\* a JS array
Arr(a) == [t |-> "array", a |-> a]

\* INIT_OPTS.storeNames and the other option lists, cut to two entries
INIT_OPTS == Arr(<<"A", "B">>)

\* DEFAULT_FORM_CONFIG with the options of its select fields
SettingsDefaults ==
  [k \in 1..Len(DEFAULT_FORM_CONFIG) |->
     IF DEFAULT_FORM_CONFIG[k].type = "select"
     THEN Spread(DEFAULT_FORM_CONFIG[k], [options |-> INIT_OPTS])
     ELSE DEFAULT_FORM_CONFIG[k]]

\* JSON.stringify then JSON.parse of a field: a key whose value is undefined
\* is left out
JsonField(f) ==
  [k \in {x \in DOMAIN f : x # "options" \/ f.options # Undefined} |-> f[k]]

JsonConfig(config) == [k \in 1..Len(config) |-> JsonField(config[k])]

\* the row 'global' of table settings: absent, or the saved field set
NoRow == [present |-> FALSE, formConfig |-> <<>>]

getSettings(row, ok) ==
  IF ~ok \/ ~row.present THEN SettingsDefaults
  ELSE IF Len(row.formConfig) = 0 THEN SettingsDefaults
  ELSE row.formConfig

saveSettings(row, config, ok) ==
  IF ok THEN [present |-> TRUE, formConfig |-> JsonConfig(config)] ELSE row

\* the text typed into a label or option input
TextInputs == {Str(<<>>), Str(<<" ">>), Str(<<"N">>), Str(<<"N", " ">>)}

Text(v) ==
  CASE v.s = <<>> -> ""
    [] v.s = <<" ">> -> " "
    [] v.s = <<"N">> -> "N"
    [] OTHER -> "N "

\* `custom_${Date.now()}_${Math.floor(Math.random()*1000)}` of the n-th edit
CustomId(n) ==
  CASE n = 0 -> "custom_0"
    [] n = 1 -> "custom_1"
    [] n = 2 -> "custom_2"
    [] n = 3 -> "custom_3"
    [] OTHER -> "custom_4"

handleUpdateField(config, updatedField) ==
  [k \in 1..Len(config) |->
     IF config[k].id = updatedField.id THEN updatedField ELSE config[k]]

handleDeleteField_system(config, id) ==
  SelectSeq(config, LAMBDA f : f.id # id /\ ~f.isSystem)

handleDeleteField(config, id) == SelectSeq(config, LAMBDA f : f.id # id)

Panel(config, settings, row, op, target, ok, edits) ==
  [fn |-> "settings", formConfig |-> config, settings |-> settings,
   row |-> row, op |-> op, target |-> target, ok |-> ok, edits |-> edits]

PanelStep(config, op, target, ok) ==
  /\ probe.edits < MaxEdits
  /\ probe' = Panel(config, probe.settings, probe.row, op, target, ok,
                    probe.edits + 1)
  /\ UNCHANGED <<db, items, nextId, today, lastOp, bulk>>

ToggleRequired(k) ==
  LET field == probe.formConfig[k]
  IN PanelStep(handleUpdateField(probe.formConfig,
                                 Spread(field, [required |-> ~field.required])),
               "toggleRequired", field.id, TRUE)

SaveLabel(k, labelText) ==
  LET field == probe.formConfig[k]
  IN IF trim(labelText.s) # <<>>
     THEN PanelStep(handleUpdateField(probe.formConfig,
                                      Spread(field, [label |-> Text(labelText)])),
                    "saveLabel", field.id, TRUE)
     ELSE PanelStep(probe.formConfig, "saveLabel", field.id, FALSE)

AddOption(k, newOption) ==
  LET field == probe.formConfig[k]
      currentOptions == IF Get(field, "options") = Undefined THEN <<>>
                        ELSE field.options.a
  IN /\ field.type = "select"
     /\ IF trim(newOption.s) # <<>>
        THEN PanelStep(handleUpdateField(probe.formConfig,
                         Spread(field, [options |-> Arr(Append(currentOptions, Text(Str(trim(newOption.s)))))])),
                       "addOption", field.id, TRUE)
        ELSE PanelStep(probe.formConfig, "addOption", field.id, FALSE)

RemoveOption(k, j) ==
  LET field == probe.formConfig[k]
      currentOptions == IF Get(field, "options") = Undefined THEN <<>>
                        ELSE field.options.a
  IN /\ field.type = "select"
     /\ j \in 1..Len(currentOptions)
     /\ PanelStep(handleUpdateField(probe.formConfig,
                    Spread(field, [options |-> Arr(SelectSeq(currentOptions, LAMBDA o : o # currentOptions[j]))])),
                  "removeOption", field.id, TRUE)

\* the delete button: confirm() is asked for a system field only
DeleteField(k, confirmed) ==
  LET field == probe.formConfig[k]
  IN IF field.isSystem /\ ~confirmed
     THEN PanelStep(probe.formConfig, "delete", field.id, FALSE)
     ELSE PanelStep(handleDeleteField(probe.formConfig, field.id),
                    "delete", field.id, TRUE)

handleAddField(section, label, type) ==
  LET id == CustomId(probe.edits)
      newField == [id |-> id, label |-> Text(label), type |-> type,
                   section |-> section, required |-> FALSE, isSystem |-> FALSE,
                   systemKey |-> "",
                   options |-> IF type = "select"
                               THEN Arr(<<"Option A", "Option B">>)
                               ELSE Undefined]
  IN IF trim(label.s) = <<>>
     THEN PanelStep(probe.formConfig, "addField", id, FALSE)
     ELSE PanelStep(Append(probe.formConfig, newField), "addField", id, TRUE)

\* handleSave -> App.handleSettingsSave: setSettings, then saveSettings
handleSave(ok) ==
  /\ JsonConfig(probe.formConfig) # JsonConfig(probe.settings)
  /\ probe' = Panel(probe.formConfig, probe.formConfig,
                    saveSettings(probe.row, probe.formConfig, ok),
                    "save", "", ok, probe.edits)
  /\ UNCHANGED <<db, items, nextId, today, lastOp, bulk>>

\* loadUserData at the next login, then the panel is opened
LoadSettings(ok) ==
  /\ probe.op # "load"
  /\ LET loaded == getSettings(probe.row, ok)
     IN probe' = Panel(loaded, loaded, probe.row, "load", "", ok, probe.edits)
  /\ UNCHANGED <<db, items, nextId, today, lastOp, bulk>>

\* the two system fields an administrator kept, saved earlier
KeptFields == SubSeq(SettingsDefaults, 1, 2)

InitSettings ==
  /\ db = {}
  /\ items = [s \in Sessions |-> <<>>]
  /\ nextId = 1
  /\ today = 1
  /\ lastOp = Op("init", "none", FALSE, 0, FALSE, FALSE)
  /\ bulk = BulkIdle
  /\ \E row \in {NoRow, saveSettings(NoRow, KeptFields, TRUE)} :
       probe = Panel(getSettings(row, TRUE), getSettings(row, TRUE), row,
                     "load", "", TRUE, 0)

NextSettings ==
  \/ \E k \in 1..Len(probe.formConfig) : ToggleRequired(k)
  \/ \E k \in 1..Len(probe.formConfig), labelText \in TextInputs : SaveLabel(k, labelText)
  \/ \E k \in 1..Len(probe.formConfig), newOption \in TextInputs : AddOption(k, newOption)
  \/ \E k \in 1..Len(probe.formConfig), j \in 1..MaxEdits + 2 : RemoveOption(k, j)
  \/ \E k \in 1..Len(probe.formConfig), confirmed \in BOOLEAN : DeleteField(k, confirmed)
  \/ \E label \in TextInputs, type \in {"text", "select"} : handleAddField("basic", label, type)
  \/ \E ok \in BOOLEAN : handleSave(ok)
  \/ \E ok \in BOOLEAN : LoadSettings(ok)

SpecSettings == InitSettings /\ [][NextSettings]_vars

FieldOps ==
  {"toggleRequired", "saveLabel", "addOption", "removeOption", "delete", "addField"}

\* id and type of the system fields of a field set, in the order of the set
SystemIdTypes(config) ==
  LET system == SelectSeq(config, LAMBDA f : f.isSystem)
  IN [k \in 1..Len(system) |-> <<system[k].id, system[k].type>>]

\* C24: a field-configuration operation (add field, rename label, toggle
\* required, add or remove an option, delete) leaves the system fields with
\* their ids and types, in their order; the one exception is a delete that
\* went through (confirmed, for a system field), which removes the system
\* field it was asked to remove and no other; a delete whose confirmation was
\* declined leaves the whole field set unchanged.
C24_SystemFieldsKeepIdAndType ==
  [][probe'.op \in FieldOps =>
       /\ IF probe'.op = "delete" /\ probe'.ok
          THEN SystemIdTypes(probe'.formConfig)
                 = SelectSeq(SystemIdTypes(probe.formConfig),
                             LAMBDA p : p[1] # probe'.target)
          ELSE SystemIdTypes(probe'.formConfig) = SystemIdTypes(probe.formConfig)
       /\ (probe'.op = "delete" /\ ~probe'.ok) =>
            probe'.formConfig = probe.formConfig]_vars

\* a declined delete of a system field, after a confirmed delete removed
\* another system field
C24_Witness ==
  /\ probe.op = "delete" /\ ~probe.ok
  /\ \E f \in Elements(probe.formConfig) : f.id = probe.target /\ f.isSystem
  /\ \A f \in Elements(probe.settings) : f.isSystem
  /\ Len(probe.formConfig) < Len(probe.settings)

\* the status the three check results and the presence of a CNY image stand
\* for: rejected on an extracted mismatch, approved when everything that was
\* supplied verified, pending otherwise
DerivedStatus(res, cnySupplied) ==
  IF \/ ~res.usdCheck.verified /\ HasAmount(res.usdCheck)
     \/ ~res.orderCheck.verified /\ HasText(res.orderCheck)
     \/ cnySupplied /\ ~res.cnyCheck.verified /\ HasAmount(res.cnyCheck)
    THEN "rejected"
  ELSE IF res.usdCheck.verified /\ res.orderCheck.verified
          /\ (~cnySupplied \/ res.cnyCheck.verified)
    THEN "approved"
  ELSE "pending"

\* C25: the status an audit writes is determined by the three check results
\* and by whether a CNY image was supplied, whatever status the claim had
\* before; so an audit that decides nothing sets a claim that was approved or
\* rejected by hand to pending, in the list and (when the update succeeds) in
\* the store.
C25_StatusIgnoresPriorStatus ==
  Audited =>
    LET claim == lastOp.audit.item
        updated == lastOp.audit.updated
        derived == DerivedStatus(updated.auditResult,
                                 Supplied(claim.creditCardDeductionScreenshotPrincipal))
    IN /\ updated.status = derived
       /\ \A c \in Elements(items["s0"]) : c.id = claim.id => c.status = derived
       /\ ~lastOp.storeFailed => \A c \in db : c.id = claim.id => c.status = derived

\* an audit that decided nothing set a claim approved by hand to pending in
\* the store
C25_Witness ==
  /\ Audited
  /\ lastOp.audit.item.status = "approved"
  /\ lastOp.audit.updated.status = "pending"
  /\ ~lastOp.storeFailed
  /\ \E c \in db : c.id = lastOp.audit.item.id /\ c.status = "pending"

\* C26: an audit of a claim without a USD transfer proof image never derives
\* the status approved and never writes it, whatever the collaborator answers
\* for the order-id image and the CNY image.
C26_NoUsdProofNeverApproved ==
  (Audited /\ ~Supplied(lastOp.audit.item.ppTransferScreenshotPrincipal)) =>
    /\ lastOp.audit.updated.status # "approved"
    /\ ~lastOp.audit.updated.auditResult.usdCheck.verified
    /\ \A c \in Elements(items["s0"]) :
         c.id = lastOp.audit.item.id => c.status # "approved"
    /\ ~lastOp.storeFailed =>
         \A c \in db : c.id = lastOp.audit.item.id => c.status # "approved"

\* a claim with an order-id image only, whose order-id check verified, was
\* audited and stays pending in the store
C26_Witness ==
  /\ Audited
  /\ ~Supplied(lastOp.audit.item.ppTransferScreenshotPrincipal)
  /\ Supplied(lastOp.audit.item.orderIdScreenshot)
  /\ lastOp.audit.updated.auditResult.orderCheck.verified
  /\ lastOp.audit.responses.usd.ok /\ lastOp.audit.responses.usd.matches
  /\ ~lastOp.storeFailed
  /\ \E c \in db : c.id = lastOp.audit.item.id /\ c.status = "pending"

\* the last audit got no answer from the collaborator: no key was available
\* (no request was made) or every request failed
NoAnswer ==
  /\ Audited
  /\ \/ lastOp.aiCalls = 0
     \/ /\ ~lastOp.audit.responses.usd.ok
        /\ ~lastOp.audit.responses.cny.ok
        /\ ~lastOp.audit.responses.order.ok

\* a check of the last audit that the collaborator answered with a mismatch
AnsweredMismatch ==
  LET claim == lastOp.audit.item
      res == lastOp.audit.updated.auditResult
      r == lastOp.audit.responses
  IN /\ lastOp.aiCalls > 0
     /\ \/ Supplied(claim.ppTransferScreenshotPrincipal) /\ r.usd.ok /\ ~res.usdCheck.verified
        \/ Supplied(claim.creditCardDeductionScreenshotPrincipal) /\ r.cny.ok /\ ~res.cnyCheck.verified
        \/ r.order.ok /\ ~res.orderCheck.verified

\* C27: when no key is available or every collaborator request of an audit
\* fails, the audit still returns: the claim gets status pending and an audit
\* result whose three checks are not verified, in the list and (when the
\* update succeeds) in the store; and an audit derives rejected only when some
\* check the collaborator did answer is not verified.
C27_FailedAuditStaysPending ==
  /\ NoAnswer =>
       LET updated == lastOp.audit.updated
       IN /\ updated.status = "pending"
          /\ ~updated.auditResult.usdCheck.verified
          /\ ~updated.auditResult.cnyCheck.verified
          /\ ~updated.auditResult.orderCheck.verified
          /\ updated \in Elements(items["s0"])
          /\ ~lastOp.storeFailed => Stored(updated) \in db
  /\ (Audited /\ lastOp.audit.updated.status = "rejected") => AnsweredMismatch

\* every request of an audit of a claim with all three images failed, and the
\* stored claim is pending with the audit result attached
C27_Witness ==
  /\ NoAnswer
  /\ lastOp.aiCalls = 3
  /\ ~lastOp.storeFailed
  /\ \E c \in db : /\ c.status = "pending"
                   /\ c.auditResult # Undefined
                   /\ ~c.auditResult.usdCheck.verified
                   /\ ~c.auditResult.cnyCheck.verified
                   /\ ~c.auditResult.orderCheck.verified

(***************************************************************************)
(* Stale copies: the owner edits claims while the administrator, whose list *)
(* was loaded earlier, approves, rejects and audits them, one by one and in *)
(* a batch.                                                                 *)
(***************************************************************************)
\* the owner retypes the order id
StaleInputs == {Spread(inp, [orderId |-> Str(<<"B">>)]) : inp \in EditInputs}

NextStale ==
  \/ \E inp \in StaleInputs : EditForm("s1", 1, inp, TRUE)
  \/ UpdateStatus("s0", 1, "approved", TRUE)
  \/ VerifySingle("s0", 1, Str(<<"k">>), Null, MismatchResponses, TRUE)
  \/ \E s \in RoleSessions : LoadUserData(s, TRUE)
  \/ \E k \in 1..MaxBulk : HandleSelectRow("s0", k)
  \/ HandleBulkVerify("s0", Str(<<"k">>), Null)
  \/ BulkDelayDone
  \/ BulkAuditDone("s0", MismatchResponses)
  \/ BulkWriteDone(TRUE)

SpecStale == InitBulk /\ [][NextStale]_vars

\* the table after the row of the copy's id was replaced by the copy
WrittenBack(copy) ==
  db' = {IF r.id = copy.id THEN Stored(copy) ELSE r : r \in db}

\* the copy is the snapshot with another status and audit result
BuiltFrom(copy, snapshot) ==
  /\ DOMAIN copy = DOMAIN snapshot \cup {"status", "auditResult"}
  /\ \A key \in DOMAIN snapshot \ {"status", "auditResult"} : copy[key] = snapshot[key]

\* C28: a store update replaces the whole row by the caller's copy.  The copy
\* a manual status change writes is the claim of the administrator's list
\* with the new status; the copy a single audit writes is the claim of the
\* list with the audit result and the derived status; the copy a batch writes
\* is built from the list taken when the batch started, which the batch never
\* refreshes.  Whatever the row held (an owner's edit made after the list was
\* loaded included) is replaced, and the update succeeds.
C28_WriteBackFromSnapshot ==
  [][/\ (lastOp'.op = "updateStatus" /\ lastOp'.verdict = "accepted" /\ bulk' = bulk) =>
          \E k \in 1..Len(items["s0"]) :
             LET copy == Spread(items["s0"][k], [status |-> items'["s0"][k].status])
             IN /\ items'["s0"][k] = copy
                /\ WrittenBack(copy)
                /\ ~lastOp'.storeFailed /\ ~lastOp'.surfaced
     /\ (lastOp'.op = "verify" /\ lastOp'.verdict = "audited" /\ bulk' = bulk) =>
          /\ lastOp'.audit.item \in Elements(items["s0"])
          /\ BuiltFrom(lastOp'.audit.updated, lastOp'.audit.item)
          /\ WrittenBack(lastOp'.audit.updated)
          /\ ~lastOp'.storeFailed /\ ~lastOp'.surfaced
     /\ (bulk.pc = "write" /\ bulk'.i = bulk.i + 1) =>
          /\ BuiltFrom(bulk.updated, BulkItem(bulk))
          /\ WrittenBack(bulk.updated)
          /\ bulk'.sCount = bulk.sCount + 1
     /\ (bulk.isProcessing /\ bulk'.isProcessing) =>
          bulk'.selectedList = bulk.selectedList]_vars

\* a manual approval has just replaced a row in which the owner had retyped
\* the order id: the row has the old order id again, the owner's list the new
C28_Witness ==
  /\ lastOp.op = "updateStatus" /\ lastOp.verdict = "accepted" /\ ~lastOp.storeFailed
  /\ lastOp.before = "edited"
  /\ \E c \in db : /\ c.status = "approved"
                   /\ c.orderId # Str(<<"B">>)
                   /\ \E e \in Elements(items["s1"]) : e.id = c.id /\ e.orderId = Str(<<"B">>)

\* what identifies a claim: internal id, claim ID, owner and creation instant
Frame(c) == <<c.id, c.autoId, c.userId, c.createdAt>>

FieldKeys ==
  {"id", "label", "type", "section", "required", "options", "systemKey", "isSystem"}

\* two field sets a reader cannot tell apart: the same fields in the same
\* order, key by key (an absent key reads as undefined)
SameFields(a, b) ==
  /\ Len(a) = Len(b)
  /\ \A k \in 1..Len(a) : \A key \in FieldKeys : Get(a[k], key) = Get(b[k], key)

\* C30: a load that follows a successful save, both going through, returns
\* the field set that was saved, whatever set the administrator built, the
\* empty set included.
C30_SaveThenLoadReturnsSaved ==
  [][(probe.op = "save" /\ probe.ok /\ probe'.op = "load" /\ probe'.ok) =>
       SameFields(probe'.settings, probe.settings)]_vars

====
